---- MODULE Spec2Model ----
(***************************************************************************)
(* WAF policy generator (payment-gen/generator): the CLI flow of           *)
(* waf_generator.main, the WAFPolicyValidator, the statement compiler of   *)
(* rule_builder and the TerraformBuilder.                                  *)
(*                                                                         *)
(* Representation of Python values:                                        *)
(*   dict          a function whose DOMAIN is the set of keys present      *)
(*                 ("k" \in DOMAIN d is Python's "k" in d); the empty dict  *)
(*                 is <<>>                                                  *)
(*   list          a sequence                                              *)
(*   str           a sequence of one-character strings wherever the code   *)
(*                 works on characters (names, verbs, fields, versions);   *)
(*                 a TLA+ string for enumerated words the code only        *)
(*                 compares or echoes (type, action, scope, ARN tokens)    *)
(*   typed scalar  [type |-> "str" | "int" | "NoneType" | "list", val]     *)
(*                 where the code's behaviour depends on the value's type  *)
(*   rule_groups   a sequence of [key, group] in insertion order (a dict   *)
(*                 iterates in insertion order; keys are unique)           *)
(*   emitted text  a sequence of lines [ind, key, val]: the indentation,   *)
(*                 the word(s) that open the line, and the interpolated    *)
(*                 value                                                   *)
(***************************************************************************)
EXTENDS Integers, Sequences, FiniteSets, TLC

(***************************************************************************)
(* Bounds of the model.                                                    *)
(***************************************************************************)
MaxRuns == 2      \* how many times generation is asked for on one config
MaxOrder == 2     \* rule groups declare an order in 1..MaxOrder, or none
MaxGroups == 3    \* the longest rule_groups mapping of the many-groups family

(***************************************************************************)
(* Python helpers.                                                         *)
(***************************************************************************)
\* "k" in d
Has(d, k) == k \in DOMAIN d

\* d.get(k, default)
Get(d, k, default) == IF k \in DOMAIN d THEN d[k] ELSE default

RECURSIVE FoldLeft(_, _, _)
\* for x in s: acc = Op(acc, x)
FoldLeft(Op(_, _), acc, s) ==
    IF s = <<>> THEN acc ELSE FoldLeft(Op, Op(acc, Head(s)), Tail(s))

\* [f(x) for x in s]
Map(Op(_), s) == [i \in 1..Len(s) |-> Op(s[i])]

UpperChars == <<"A", "B", "C", "D", "E", "F", "G", "H", "I", "J", "K", "L", "M",
                "N", "O", "P", "Q", "R", "S", "T", "U", "V", "W", "X", "Y", "Z">>
LowerChars == <<"a", "b", "c", "d", "e", "f", "g", "h", "i", "j", "k", "l", "m",
                "n", "o", "p", "q", "r", "s", "t", "u", "v", "w", "x", "y", "z">>
DigitChars == <<"0", "1", "2", "3", "4", "5", "6", "7", "8", "9">>

Range(s) == {s[i] : i \in DOMAIN s}

LowerChar(c) ==
    IF c \in Range(UpperChars)
    THEN LowerChars[CHOOSE i \in DOMAIN UpperChars : UpperChars[i] = c]
    ELSE c

UpperChar(c) ==
    IF c \in Range(LowerChars)
    THEN UpperChars[CHOOSE i \in DOMAIN LowerChars : LowerChars[i] = c]
    ELSE c

\* str.lower()
Lower(s) == [i \in 1..Len(s) |-> LowerChar(s[i])]

\* str.upper()
Upper(s) == [i \in 1..Len(s) |-> UpperChar(s[i])]

RECURSIVE Replace(_, _, _)
\* str.replace(old, new), old non-empty: leftmost non-overlapping occurrences
Replace(s, old, new) ==
    IF Len(s) < Len(old) THEN s
    ELSE IF SubSeq(s, 1, Len(old)) = old
         THEN new \o Replace(SubSeq(s, Len(old) + 1, Len(s)), old, new)
         ELSE <<Head(s)>> \o Replace(Tail(s), old, new)

\* str(n) for the small naturals of the model
IntToStr(n) ==
    IF n < 10 THEN <<DigitChars[n + 1]>>
    ELSE IF n < 100 THEN <<DigitChars[(n \div 10) + 1], DigitChars[(n % 10) + 1]>>
    ELSE <<DigitChars[(n \div 100) + 1], DigitChars[((n \div 10) % 10) + 1],
           DigitChars[(n % 10) + 1]>>

\* typed scalars
PyStr(s) == [type |-> "str", val |-> s]
PyInt(n) == [type |-> "int", val |-> IntToStr(n)]
PyNone == [type |-> "NoneType", val |-> <<>>]
PyList(items) == [type |-> "list", val |-> items]

\* bool(v) of a typed scalar
Truthy(v) == v.type # "NoneType" /\ v.val # <<>> /\ ~(v.type = "int" /\ v.val = <<"0">>)

\* the words of the configuration language, as character strings
W_BODY == <<"B", "O", "D", "Y">>
W_JSON_BODY == <<"J", "S", "O", "N", "_", "B", "O", "D", "Y">>
W_HEADERS == <<"H", "E", "A", "D", "E", "R", "S">>
W_COOKIES == <<"C", "O", "O", "K", "I", "E", "S">>
W_URI_PATH == <<"U", "R", "I", "_", "P", "A", "T", "H">>
W_QUERY_STRING == <<"Q", "U", "E", "R", "Y", "_", "S", "T", "R", "I", "N", "G">>
W_SINGLE_HEADER == <<"S", "I", "N", "G", "L", "E", "_", "H", "E", "A", "D", "E", "R">>
W_SINGLE_QUERY_ARGUMENT ==
    <<"S", "I", "N", "G", "L", "E", "_", "Q", "U", "E", "R", "Y", "_",
      "A", "R", "G", "U", "M", "E", "N", "T">>
W_ALL_QUERY_ARGUMENTS ==
    <<"A", "L", "L", "_", "Q", "U", "E", "R", "Y", "_",
      "A", "R", "G", "U", "M", "E", "N", "T", "S">>
W_METHOD == <<"M", "E", "T", "H", "O", "D">>
TOKEN_allowed_hosts ==
    <<"$", "{", "a", "l", "l", "o", "w", "e", "d", "_", "h", "o", "s", "t", "s", "}">>
TOKEN_account_id == <<"$", "{", "a", "c", "c", "o", "u", "n", "t", "_", "i", "d", "}">>
TOKEN_project == <<"$", "{", "p", "r", "o", "j", "e", "c", "t", "}">>

(***************************************************************************)
(* validators.py: WAFPolicyValidator.                                      *)
(* The validator's state is V = [errors, warnings]; every _validate_*      *)
(* method is an operator from V to V.  A message is the f-string's fixed   *)
(* text and the sequence of values it interpolates.                        *)
(***************************************************************************)
VALID_SCOPES == {"CLOUDFRONT", "REGIONAL"}
VALID_ACTIONS == {"allow", "block", "count", "none"}
VALID_RULE_TYPES == {"ip_set", "managed", "custom", "external", "module"}
VALID_FIELDS == {W_BODY, W_JSON_BODY, W_HEADERS, W_COOKIES, W_URI_PATH,
                 W_QUERY_STRING, W_SINGLE_HEADER, W_SINGLE_QUERY_ARGUMENT,
                 W_ALL_QUERY_ARGUMENTS, W_METHOD}
VALID_POSITIONAL_CONSTRAINTS ==
    {"EXACTLY", "STARTS_WITH", "ENDS_WITH", "CONTAINS", "CONTAINS_WORD"}
VALID_COMPARISON_OPERATORS == {"EQ", "NE", "LE", "LT", "GE", "GT"}

Msg(fmt, args) == [fmt |-> fmt, args |-> args]
AddError(V, m) == [V EXCEPT !.errors = Append(@, m)]
AddWarning(V, m) == [V EXCEPT !.warnings = Append(@, m)]
AddErrorIf(V, cond, m) == IF cond THEN AddError(V, m) ELSE V

\* str(account_id).isdigit()
IsDigit(s) == s # <<>> /\ \A i \in DOMAIN s : s[i] \in Range(DigitChars)

_validate_metadata(V, metadata) ==
    LET Missing(W, field) ==
            AddErrorIf(W, ~Has(metadata, field),
                       Msg("Missing required metadata field: {}", <<<<field>>>>))
        V1 == FoldLeft(Missing, V, <<"project", "policy_name", "account_id">>)
    IN  IF Has(metadata, "account_id")
           /\ (~IsDigit(metadata["account_id"]) \/ Len(metadata["account_id"]) # 12)
        THEN AddWarning(V1, Msg("Account ID '{}' should be 12 digits",
                                <<metadata["account_id"]>>))
        ELSE V1

_validate_settings(V, settings) ==
    LET scope == Get(settings, "scope", "")
        default_action == Get(settings, "default_action", "")
        V1 == AddErrorIf(V, scope # "" /\ scope \notin VALID_SCOPES,
                         Msg("Invalid scope '{}'. Must be CLOUDFRONT or REGIONAL",
                             <<<<scope>>>>))
    IN  AddErrorIf(V1, default_action # ""
                       /\ default_action \notin {"allow", "block", "count"},
                   Msg("Invalid default_action '{}'", <<<<default_action>>>>))

_validate_allowed_hosts(V, hosts) ==
    LET One(W, host) ==
            LET match_type == Get(host, "match", "EXACTLY")
                W1 == AddErrorIf(W, ~Has(host, "host"),
                                 Msg("allowed_hosts entry missing 'host' field", <<>>))
            IN  AddErrorIf(W1, match_type \notin VALID_POSITIONAL_CONSTRAINTS,
                           Msg("Invalid match type '{}' in allowed_hosts",
                               <<<<match_type>>>>))
    IN  FoldLeft(One, V, hosts)

\* a check of the octets alone, whatever the prefix length
any_prefix_length(cidr) ==
    /\ Len(cidr.octets) = 4
    /\ \A i \in DOMAIN cidr.octets : cidr.octets[i] \in 0..255

\* ipaddress.ip_network(cidr, strict=False) accepts the address: an IPv4 address is
\* [octets, prefix] with four octets in 0..255 and a prefix length in 0..32
_is_valid_cidr(cidr) ==
    /\ Len(cidr.octets) = 4
    /\ \A i \in DOMAIN cidr.octets : cidr.octets[i] \in 0..255
    /\ cidr.prefix \in 0..32

\* the text of an address as the message shows it
CidrText(cidr) ==
    FoldLeft(LAMBDA acc, o : (IF acc = <<>> THEN acc ELSE acc \o <<".">>) \o IntToStr(o),
             <<>>, cidr.octets) \o <<"/">> \o IntToStr(cidr.prefix)

_validate_ip_set_group(V, name, group) ==
    LET V1 == AddErrorIf(V, ~Has(group, "ip_addresses"),
                         Msg("Rule group '{}': ip_set must have ip_addresses", <<name>>))
        One(W, ip) ==
            AddErrorIf(W, ~_is_valid_cidr(ip),
                       Msg("Rule group '{}': Invalid CIDR '{}'", <<name, CidrText(ip)>>))
    IN  FoldLeft(One, V1, Get(group, "ip_addresses", <<>>))

_validate_managed_group(V, name, group) ==
    AddErrorIf(V, ~Has(group, "managed_rule_group"),
               Msg("Rule group '{}': managed type requires managed_rule_group", <<name>>))

_validate_external_group(V, name, group) ==
    LET has_single == Has(group, "arn_variable")
        has_split == Has(group, "arn_variable_count") \/ Has(group, "arn_variable_block")
    IN  AddErrorIf(V, ~has_single /\ ~has_split,
                   Msg("Rule group '{}': external type requires arn_variable or arn_variable_count/arn_variable_block",
                       <<name>>))

_validate_module_group(V, name, group) ==
    AddErrorIf(V, ~Has(group, "module_source"),
               Msg("Rule group '{}': module type requires module_source", <<name>>))

\* the field checks shared by the leaf validators: field = match.get("field", "")
FieldOf(match) == Get(match, "field", PyStr(<<>>))
InvalidField(match) == Truthy(FieldOf(match)) /\ FieldOf(match).val \notin VALID_FIELDS
FieldError(V, rule_name, match) ==
    AddErrorIf(V, InvalidField(match),
               Msg("Rule '{}': Invalid field '{}'", <<rule_name, FieldOf(match).val>>))

_validate_byte_match(V, rule_name, byte_match) ==
    LET field == FieldOf(byte_match)
        constraint == Get(byte_match, "positional_constraint", "")
        V1 == FieldError(V, rule_name, byte_match)
        V2 == AddErrorIf(V1, field = PyStr(W_SINGLE_HEADER)
                             /\ Get(byte_match, "header_name", <<>>) = <<>>,
                         Msg("Rule '{}': SINGLE_HEADER requires header_name", <<rule_name>>))
    IN  AddErrorIf(V2, constraint # "" /\ constraint \notin VALID_POSITIONAL_CONSTRAINTS,
                   Msg("Rule '{}': Invalid positional_constraint '{}'",
                       <<rule_name, <<constraint>>>>))

_validate_match_statement(V, rule_name, match) == FieldError(V, rule_name, match)

_validate_size_constraint(V, rule_name, constraint) ==
    LET operator == Get(constraint, "comparison_operator", "")
        V1 == FieldError(V, rule_name, constraint)
        V2 == AddErrorIf(V1, operator # "" /\ operator \notin VALID_COMPARISON_OPERATORS,
                         Msg("Rule '{}': Invalid comparison_operator '{}'",
                             <<rule_name, <<operator>>>>))
    IN  AddErrorIf(V2, Has(constraint, "size") /\ constraint["size"].type \notin {"int", "NoneType"},
                   Msg("Rule '{}': size must be an integer", <<rule_name>>))

RECURSIVE ParenDepth(_, _)
\* the nesting depth left open at the end of a pattern, -1 once a ")" closes nothing
ParenDepth(s, depth) ==
    IF depth < 0 \/ s = <<>> THEN depth
    ELSE ParenDepth(Tail(s), CASE Head(s) = "(" -> depth + 1
                               [] Head(s) = ")" -> depth - 1
                               [] OTHER -> depth)

\* re.compile(regex_string) succeeds: of the pattern grammar, the balance of groups
RegexCompiles(regex_string) == ParenDepth(regex_string, 0) = 0

_validate_regex_match(V, rule_name, regex) ==
    LET regex_string == Get(regex, "regex_string", <<>>)
        V1 == FieldError(V, rule_name, regex)
    IN  AddErrorIf(V1, regex_string # <<>> /\ ~RegexCompiles(regex_string),
                   Msg("Rule '{}': Invalid regex '{}': {}",
                       <<rule_name, regex_string, <<"re.error">>>>))

_validate_label_match(V, rule_name, label_match) ==
    LET scope == Get(label_match, "scope", "")
    IN  AddErrorIf(V, scope # "" /\ scope \notin {"LABEL", "NAMESPACE"},
                   Msg("Rule '{}': Invalid label scope '{}'", <<rule_name, <<scope>>>>))

RECURSIVE _validate_statement(_, _, _, _)
_validate_statement(V, rule_name, statement, config) ==
    LET Sub(W, sub_stmt) == _validate_statement(W, rule_name, sub_stmt, config)
    IN
    IF Has(statement, "and") THEN FoldLeft(Sub, V, statement["and"])
    ELSE IF Has(statement, "or") THEN FoldLeft(Sub, V, statement["or"])
    ELSE IF Has(statement, "not") THEN Sub(V, statement["not"])
    ELSE
    LET V1 == AddErrorIf(V, Has(statement, "or_methods")
                            /\ statement["or_methods"].type # "list",
                         Msg("Rule '{}': or_methods must be a list", <<rule_name>>))
        V2 == IF /\ Has(statement, "or_hosts")
                 /\ statement["or_hosts"] = PyStr(TOKEN_allowed_hosts)
                 /\ Get(config, "allowed_hosts", <<>>) = <<>>
              THEN AddWarning(V1, Msg("Rule '{}': references allowed_hosts but none defined",
                                      <<rule_name>>))
              ELSE V1
    IN  IF Has(statement, "byte_match")
        THEN _validate_byte_match(V2, rule_name, statement["byte_match"])
        ELSE IF Has(statement, "sqli_match")
        THEN _validate_match_statement(V2, rule_name, statement["sqli_match"])
        ELSE IF Has(statement, "xss_match")
        THEN _validate_match_statement(V2, rule_name, statement["xss_match"])
        ELSE IF Has(statement, "size_constraint")
        THEN _validate_size_constraint(V2, rule_name, statement["size_constraint"])
        ELSE IF Has(statement, "regex_match")
        THEN _validate_regex_match(V2, rule_name, statement["regex_match"])
        ELSE IF Has(statement, "label_match")
        THEN _validate_label_match(V2, rule_name, statement["label_match"])
        ELSE V2

UNKNOWN_RULE == <<"u", "n", "k", "n", "o", "w", "n">>

_validate_rule(V, group_name, rule, config) ==
    LET rule_name == Get(rule, "name", UNKNOWN_RULE)
        action == Get(rule, "action", "")
        statement == Get(rule, "statement", <<>>)
        V1 == AddErrorIf(V, ~Has(rule, "name"),
                         Msg("Rule in '{}' missing name", <<group_name>>))
        V2 == AddErrorIf(V1, ~Has(rule, "action"),
                         Msg("Rule '{}' missing action", <<rule_name>>))
        V3 == AddErrorIf(V2, ~Has(rule, "statement"),
                         Msg("Rule '{}' missing statement", <<rule_name>>))
        V4 == AddErrorIf(V3, action # "" /\ action \notin VALID_ACTIONS,
                         Msg("Rule '{}': Invalid action '{}'", <<rule_name, <<action>>>>))
    IN  IF statement # <<>> THEN _validate_statement(V4, rule_name, statement, config)
        ELSE V4

_validate_custom_group(V, name, group, config) ==
    LET rules == Get(group, "rules", <<>>)
        V1 == AddErrorIf(V, rules = <<>>,
                         Msg("Rule group '{}': custom type must have rules", <<name>>))
    IN  FoldLeft(LAMBDA W, rule : _validate_rule(W, name, rule, config), V1, rules)

\* one turn of the loop over rule_groups.items(); W carries the validator's state
\* and the set `orders` of the order values seen so far
ValidateGroupEntry(W, entry, config) ==
    LET name == entry.key
        group == entry.group
        rule_type == Get(group, "type", "")
        dup == Has(group, "order") /\ group["order"] \in W.orders
        V1 == AddErrorIf(W.V, dup,
                         Msg("Duplicate order {} in rule_groups",
                             <<IntToStr(Get(group, "order", 0))>>))
        orders1 == IF Has(group, "order") THEN W.orders \cup {group["order"]} ELSE W.orders
        V2 == AddErrorIf(V1, rule_type \notin VALID_RULE_TYPES,
                         Msg("Invalid rule type '{}' in {}", <<<<rule_type>>, name>>))
        V3 == CASE rule_type = "ip_set" -> _validate_ip_set_group(V2, name, group)
                [] rule_type = "managed" -> _validate_managed_group(V2, name, group)
                [] rule_type = "custom" -> _validate_custom_group(V2, name, group, config)
                [] rule_type = "external" -> _validate_external_group(V2, name, group)
                [] rule_type = "module" -> _validate_module_group(V2, name, group)
                [] OTHER -> V2
    IN  [V |-> V3, orders |-> orders1]

_validate_rule_groups(V, config) ==
    LET rule_groups == Get(config, "rule_groups", <<>>)
    IN  FoldLeft(LAMBDA W, entry : ValidateGroupEntry(W, entry, config),
                 [V |-> V, orders |-> {}], rule_groups).V

_validate_security_policy(V, config) ==
    LET security_policy == Get(config, "security_policy", <<>>)
        rule_groups == Get(config, "rule_groups", <<>>)
        first_groups == Get(security_policy, "first_rule_groups", <<>>)
        last_groups == Get(security_policy, "last_rule_groups", <<>>)
        One(W, group_name) ==
            AddErrorIf(W, \A i \in DOMAIN rule_groups : rule_groups[i].key # group_name,
                       Msg("Security policy references undefined rule group '{}'",
                           <<group_name>>))
    IN  FoldLeft(One, V, first_groups \o last_groups)

_validate_test_definitions(V, test_defs) ==
    LET Test(W, test) ==
            LET W1 == AddErrorIf(W, ~Has(test, "id"),
                                 Msg("Test in suite '{}' missing id", <<>>))
            IN  AddErrorIf(W1, ~Has(test, "request"), Msg("Test '{}' missing request", <<>>))
        Suite(W, suite) ==
            FoldLeft(Test,
                     AddErrorIf(W, ~Has(suite, "name"), Msg("Test suite missing name", <<>>)),
                     Get(suite, "tests", <<>>))
    IN  IF test_defs = <<>> THEN V
        ELSE FoldLeft(Suite, V, Get(test_defs, "test_suites", <<>>))

REQUIRED_SECTIONS == <<"version", "metadata", "settings", "rule_groups">>

\* a validate that runs the semantic checks whatever sections are missing
validate_every_section(config) ==
    LET Missing(W, section) ==
            AddErrorIf(W, ~Has(config, section),
                       Msg("Missing required field: {}", <<<<section>>>>))
        V0 == FoldLeft(Missing, [errors |-> <<>>, warnings |-> <<>>], REQUIRED_SECTIONS)
        V6 == _validate_test_definitions(
                  _validate_security_policy(
                      _validate_rule_groups(
                          _validate_allowed_hosts(
                              _validate_settings(
                                  _validate_metadata(V0, Get(config, "metadata", <<>>)),
                                  Get(config, "settings", <<>>)),
                              Get(config, "allowed_hosts", <<>>)),
                          config),
                      config),
                  Get(config, "test_definitions", <<>>))
    IN  [ok |-> Len(V6.errors) = 0, errors |-> V6.errors, warnings |-> V6.warnings]

\* validate(config): the value returned (ok) and the two lists it leaves behind
validate(config) ==
    LET Missing(W, section) ==
            AddErrorIf(W, ~Has(config, section),
                       Msg("Missing required field: {}", <<<<section>>>>))
        V0 == FoldLeft(Missing, [errors |-> <<>>, warnings |-> <<>>], REQUIRED_SECTIONS)
        V1 == _validate_metadata(V0, Get(config, "metadata", <<>>))
        V2 == _validate_settings(V1, Get(config, "settings", <<>>))
        V3 == _validate_allowed_hosts(V2, Get(config, "allowed_hosts", <<>>))
        V4 == _validate_rule_groups(V3, config)
        V5 == _validate_security_policy(V4, config)
        V6 == _validate_test_definitions(V5, Get(config, "test_definitions", <<>>))
    IN  IF V0.errors # <<>>
        THEN [ok |-> FALSE, errors |-> V0.errors, warnings |-> V0.warnings]
        ELSE [ok |-> Len(V6.errors) = 0, errors |-> V6.errors, warnings |-> V6.warnings]

(***************************************************************************)
(* rule_builder.py: the statement compiler.                                *)
(* A text is the sequence of its lines (text.split("\n")): the empty       *)
(* string is one blank line, and joining with "\n" is concatenation.  A    *)
(* function that can raise returns [err, out]: err names the exception,    *)
(* NoErr when it returns normally with the value out.                      *)
(***************************************************************************)
NoErr == "none"
Line(ind, key, val) == [ind |-> ind, key |-> key, val |-> val]
EmptyText == <<Line(0, "", <<>>)>>
Ok(out) == [err |-> NoErr, out |-> out]
Raise(e) == [err |-> e, out |-> <<>>]

\* x = r; return F(x): an exception raised while computing r propagates
Then(r, F(_)) == IF r.err # NoErr THEN r ELSE Ok(F(r.out))

\* the same, F itself being a computation that can raise
Bind(r, F(_)) == IF r.err # NoErr THEN r ELSE F(r.out)

\* a loop that appends each result to a list: the list, or the first exception
Gather(built) ==
    IF \E i \in DOMAIN built : built[i].err # NoErr
    THEN built[CHOOSE i \in DOMAIN built :
                 built[i].err # NoErr /\ \A j \in 1..(i - 1) : built[j].err = NoErr]
    ELSE Ok([i \in DOMAIN built |-> built[i].out])

\* f"{ind}{block}": the first line of a multi-line block lands behind the prefix,
\* the lines after it keep the indentation they were written with
Embed(ind, block) ==
    [i \in DOMAIN block |-> IF i = 1 THEN [block[i] EXCEPT !.ind = ind] ELSE block[i]]

\* "\n<sep>".join(blocks)
JoinBlocks(blocks, sepInd) ==
    IF blocks = <<>> THEN EmptyText
    ELSE FoldLeft(LAMBDA acc, b : acc \o Embed(sepInd, b), Head(blocks), Tail(blocks))

\* "\n".join(blocks): every block keeps the indentation it was written with
JoinLines(blocks) ==
    IF blocks = <<>> THEN EmptyText
    ELSE FoldLeft(LAMBDA acc, b : acc \o b, <<>>, blocks)

expand_template(template, config) ==
    IF template.type # "str" THEN template
    ELSE PyStr(Replace(template.val, TOKEN_account_id,
                       Get(Get(config, "metadata", <<>>), "account_id", <<>>)))

\* a table with a form of its own for JSON_BODY
FieldBlockWithJsonBody(field_upper, config) ==
    <<Line(0, "field_to_match {", <<>>)>>
    \o (CASE field_upper = W_BODY ->
              <<Line(10, "body {", <<>>),
                Line(12, "oversize_handling =", <<Get(config, "oversize_handling", "CONTINUE")>>),
                Line(10, "}", <<>>)>>
         [] field_upper = W_JSON_BODY -> <<Line(10, "json_body {}", <<>>)>>
         [] field_upper = W_QUERY_STRING -> <<Line(10, "query_string {}", <<>>)>>
         [] field_upper = W_URI_PATH -> <<Line(10, "uri_path {}", <<>>)>>
         [] field_upper = W_METHOD -> <<Line(10, "method {}", <<>>)>>
         [] field_upper = W_SINGLE_HEADER ->
              <<Line(10, "single_header {", <<>>),
                Line(12, "name =", Lower(Get(config, "header_name", <<>>))),
                Line(10, "}", <<>>)>>
         [] field_upper = W_ALL_QUERY_ARGUMENTS -> <<Line(10, "all_query_arguments {}", <<>>)>>
         [] OTHER -> <<Line(10, "body {}", <<>>)>>)
    \o <<Line(8, "}", <<>>)>>

\* the lowering table of build_field_to_match, field_upper = field.upper()
FieldBlock(field_upper, config) ==
    <<Line(0, "field_to_match {", <<>>)>>
    \o (CASE field_upper = W_BODY ->
              <<Line(10, "body {", <<>>),
                Line(12, "oversize_handling =", <<Get(config, "oversize_handling", "CONTINUE")>>),
                Line(10, "}", <<>>)>>
         [] field_upper = W_QUERY_STRING -> <<Line(10, "query_string {}", <<>>)>>
         [] field_upper = W_URI_PATH -> <<Line(10, "uri_path {}", <<>>)>>
         [] field_upper = W_METHOD -> <<Line(10, "method {}", <<>>)>>
         [] field_upper = W_SINGLE_HEADER ->
              <<Line(10, "single_header {", <<>>),
                Line(12, "name =", Lower(Get(config, "header_name", <<>>))),
                Line(10, "}", <<>>)>>
         [] field_upper = W_ALL_QUERY_ARGUMENTS -> <<Line(10, "all_query_arguments {}", <<>>)>>
         [] OTHER -> <<Line(10, "body {}", <<>>)>>)
    \o <<Line(8, "}", <<>>)>>

build_field_to_match(field, config) ==
    IF field.type # "str" THEN Raise("AttributeError")
    ELSE Ok(FieldBlock(Upper(field.val), config))

TransformationBlock(priority, trans_type) ==
    <<Line(0, "text_transformation {", <<>>),
      Line(10, "priority =", IntToStr(priority)),
      Line(10, "type     =", <<trans_type>>),
      Line(8, "}", <<>>)>>

build_text_transformations(transformations) ==
    IF transformations = <<>> THEN TransformationBlock(0, "NONE")
    ELSE JoinBlocks(Map(LAMBDA t : TransformationBlock(Get(t, "priority", 0),
                                                       Get(t, "type", "NONE")),
                        transformations), 8)

\* the leaf builders share their shape: a head line, the leaf's own attribute lines,
\* the field block and the transformation block behind "{ind}  ", and a closing line
Leaf(head, attrs, match, indent) ==
    Then(build_field_to_match(Get(match, "field", PyStr(W_BODY)), match),
         LAMBDA field_block :
             <<Line(indent, head, <<>>)>> \o attrs
             \o Embed(indent + 2, field_block)
             \o Embed(indent + 2,
                      build_text_transformations(Get(match, "text_transformations", <<>>)))
             \o <<Line(indent, "}", <<>>)>>)

build_byte_match_statement(byte_match, indent) ==
    Leaf("byte_match_statement {",
         <<Line(indent + 2, "search_string         =", Get(byte_match, "search_string", <<>>)),
           Line(indent + 2, "positional_constraint =",
                <<Get(byte_match, "positional_constraint", "CONTAINS")>>)>>,
         byte_match, indent)

build_sqli_match_statement(sqli_match, indent) ==
    Leaf("sqli_match_statement {",
         <<Line(indent + 2, "sensitivity_level =",
                <<Get(sqli_match, "sensitivity_level", "LOW")>>)>>,
         sqli_match, indent)

build_xss_match_statement(xss_match, indent) ==
    Leaf("xss_match_statement {", <<>>, xss_match, indent)

build_size_constraint_statement(size_constraint, indent) ==
    Leaf("size_constraint_statement {",
         <<Line(indent + 2, "comparison_operator =",
                <<Get(size_constraint, "comparison_operator", "GT")>>),
           Line(indent + 2, "size                =",
                Get(size_constraint, "size", PyInt(0)).val)>>,
         size_constraint, indent)

build_regex_match_statement(regex_match, indent) ==
    Leaf("regex_match_statement {",
         <<Line(indent + 2, "regex_string =", Get(regex_match, "regex_string", <<>>))>>,
         regex_match, indent)

build_label_match_statement(label_match, config, indent) ==
    Ok(<<Line(indent, "label_match_statement {", <<>>),
         Line(indent + 2, "scope =", <<Get(label_match, "scope", "LABEL")>>),
         Line(indent + 2, "key   =",
              expand_template(Get(label_match, "key", PyStr(<<>>)), config).val),
         Line(indent, "}", <<>>)>>)

\* a member of a synthetic or_statement: one byte match inside a statement wrapper
OrMember(search_string, constraint, field_lines, indent) ==
    <<Line(indent + 2, "statement {", <<>>),
      Line(indent + 4, "byte_match_statement {", <<>>),
      Line(indent + 6, "search_string         =", search_string),
      Line(indent + 6, "positional_constraint =", <<constraint>>),
      Line(indent + 6, "field_to_match {", <<>>)>>
    \o field_lines \o
    <<Line(indent + 6, "}", <<>>),
      Line(indent + 6, "text_transformation {", <<>>),
      Line(indent + 8, "priority =", <<"0">>),
      Line(indent + 8, "type     =", <<"LOWERCASE">>),
      Line(indent + 6, "}", <<>>),
      Line(indent + 4, "}", <<>>),
      Line(indent + 2, "}", <<>>)>>

\* f"{ind}or_statement {{\n{chr(10).join(statements)}\n{ind}}}"
OrStatement(statements, indent) ==
    <<Line(indent, "or_statement {", <<>>)>>
    \o JoinLines(statements)
    \o <<Line(indent, "}", <<>>)>>

\* what "for method in methods" yields: the items of a list, the characters of a str
Iterate(v) == IF v.type = "list" THEN v.val ELSE [i \in DOMAIN v.val |-> PyStr(<<v.val[i]>>)]

\* the item as it is written, not lower-cased
MethodAsWritten(method) ==
    IF method.type # "str" THEN Raise("AttributeError") ELSE Ok(method.val)

\* method.lower() of one item
MethodLower(method) ==
    IF method.type # "str" THEN Raise("AttributeError") ELSE Ok(Lower(method.val))

build_or_methods_statement(methods, indent) ==
    IF methods.type \notin {"list", "str"} THEN Raise("TypeError")
    ELSE Then(Gather(Map(MethodLower, Iterate(methods))),
              LAMBDA verbs :
                  OrStatement(Map(LAMBDA verb :
                                      OrMember(verb, "EXACTLY",
                                               <<Line(indent + 8, "method {}", <<>>)>>, indent),
                                  verbs), indent))

\* a dict, as opposed to a typed scalar
IsDict(x) == DOMAIN x # {"type", "val"}

\* host_def.get(...) of one item
HostDef(host_def) == IF ~IsDict(host_def) THEN Raise("AttributeError") ELSE Ok(host_def)

\* an expansion that gives every host the default match type
build_or_hosts_exactly(hosts, indent) ==
    Then(Gather(Map(HostDef, hosts)),
         LAMBDA defs :
             OrStatement(Map(LAMBDA host_def :
                                 OrMember(Get(host_def, "host", <<>>), "EXACTLY",
                                          <<Line(indent + 8, "single_header {", <<>>),
                                            Line(indent + 10, "name =", <<"h", "o", "s", "t">>),
                                            Line(indent + 8, "}", <<>>)>>, indent),
                             defs), indent))

build_or_hosts_statement(hosts, indent) ==
    Then(Gather(Map(HostDef, hosts)),
         LAMBDA defs :
             OrStatement(Map(LAMBDA host_def :
                                 OrMember(Get(host_def, "host", <<>>),
                                          Get(host_def, "match", "EXACTLY"),
                                          <<Line(indent + 8, "single_header {", <<>>),
                                            Line(indent + 10, "name =", <<"h", "o", "s", "t">>),
                                            Line(indent + 8, "}", <<>>)>>, indent),
                             defs), indent))

\* a wrapper that leaves out a child compiled to the empty string
WrapStatementUnlessEmpty(sub_stmt, indent) ==
    IF sub_stmt = EmptyText THEN <<>>
    ELSE <<Line(indent + 2, "statement {", <<>>)>> \o sub_stmt \o <<Line(indent + 2, "}", <<>>)>>

\* f"{ind}  statement {{\n{sub_stmt}\n{ind}  }}"
WrapStatement(sub_stmt, indent) ==
    <<Line(indent + 2, "statement {", <<>>)>> \o sub_stmt \o <<Line(indent + 2, "}", <<>>)>>

\* the parent container of a combinator around its wrapped children
Combinator(head, children, indent) ==
    <<Line(indent, head, <<>>)>>
    \o JoinLines(Map(LAMBDA sub_stmt : WrapStatement(sub_stmt, indent), children))
    \o <<Line(indent, "}", <<>>)>>

RECURSIVE build_statement(_, _, _)
build_statement(statement, config, indent) ==
    LET \* the loop of the and/or branches: compile every child, wrap each, join
        Compound(head, subs) ==
            Then(Gather(Map(LAMBDA sub : build_statement(sub, config, indent + 2), subs)),
                 LAMBDA children : Combinator(head, children, indent))
    IN
    IF Has(statement, "and") THEN Compound("and_statement {", statement["and"])
    ELSE IF Has(statement, "or") THEN Compound("or_statement {", statement["or"])
    ELSE IF Has(statement, "not") THEN Compound("not_statement {", <<statement["not"]>>)
    ELSE IF Has(statement, "or_methods")
    THEN build_or_methods_statement(statement["or_methods"], indent)
    ELSE IF Has(statement, "or_hosts")
    THEN LET hosts_ref == statement["or_hosts"]
             hosts == IF hosts_ref = PyStr(TOKEN_allowed_hosts)
                      THEN Get(config, "allowed_hosts", <<>>)
                      ELSE IF hosts_ref.type = "list" THEN hosts_ref.val ELSE <<>>
         IN  build_or_hosts_statement(hosts, indent)
    ELSE IF Has(statement, "byte_match")
    THEN build_byte_match_statement(statement["byte_match"], indent)
    ELSE IF Has(statement, "sqli_match")
    THEN build_sqli_match_statement(statement["sqli_match"], indent)
    ELSE IF Has(statement, "xss_match")
    THEN build_xss_match_statement(statement["xss_match"], indent)
    ELSE IF Has(statement, "size_constraint")
    THEN build_size_constraint_statement(statement["size_constraint"], indent)
    ELSE IF Has(statement, "regex_match")
    THEN build_regex_match_statement(statement["regex_match"], indent)
    ELSE IF Has(statement, "label_match")
    THEN build_label_match_statement(statement["label_match"], config, indent)
    ELSE Ok(EmptyText)

AlphaNumChars == Range(UpperChars) \cup Range(LowerChars) \cup Range(DigitChars)

\* re.sub(r'[^a-zA-Z0-9]', '', name)
MetricName(name) == SelectSeq(name, LAMBDA c : c \in AlphaNumChars)

build_visibility_config(name, indent) ==
    <<Line(indent, "visibility_config {", <<>>),
      Line(indent + 2, "cloudwatch_metrics_enabled =", <<"true">>),
      Line(indent + 2, "metric_name                =", MetricName(name)),
      Line(indent + 2, "sampled_requests_enabled   =", <<"true">>),
      Line(indent, "}", <<>>)>>

\* custom_response is a dict, or <<>> for None
\* an action block that blocks whatever the action
build_block_action(action, custom_response, indent) ==
    <<Line(indent, "action {", <<>>),
      Line(indent + 2, "block {}", <<>>),
      Line(indent, "}", <<>>)>>

build_action(action, custom_response, indent) ==
    LET Plain(word) == <<Line(indent, "action {", <<>>),
                         Line(indent + 2, word, <<>>),
                         Line(indent, "}", <<>>)>>
    IN  CASE action = "allow" -> Plain("allow {}")
          [] action = "count" -> Plain("count {}")
          [] action = "block" ->
               IF custom_response # <<>>
               THEN <<Line(indent, "action {", <<>>),
                      Line(indent + 2, "block {", <<>>),
                      Line(indent + 4, "custom_response {", <<>>),
                      Line(indent + 6, "response_code              =",
                           IntToStr(Get(custom_response, "response_code", 403))),
                      Line(indent + 6, "custom_response_body_key   =",
                           Get(custom_response, "custom_response_body_key", <<>>)),
                      Line(indent + 4, "}", <<>>),
                      Line(indent + 2, "}", <<>>),
                      Line(indent, "}", <<>>)>>
               ELSE Plain("block {}")
          [] OTHER -> Plain("allow {}")

\* label and namespace are strings, <<>> for None or ""
build_rule_labels(label, namespace, indent) ==
    IF label = <<>> THEN EmptyText
    ELSE <<Line(indent, "rule_label {", <<>>),
           Line(indent + 2, "name =",
                IF namespace # <<>> THEN namespace \o <<":">> \o label ELSE label),
           Line(indent, "}", <<>>)>>

IdentChars == AlphaNumChars \cup {"_"}

\* a substitution that drops the characters instead: re.sub(r'[^a-zA-Z0-9_]', '', name)
drop_outside_characters(name) == SelectSeq(name, LAMBDA c : c \in IdentChars)

\* re.sub(r'[^a-zA-Z0-9_]', '_', name)
sanitize_resource_name(name) ==
    [i \in 1..Len(name) |-> IF name[i] \in IdentChars THEN name[i] ELSE "_"]

(***************************************************************************)
(* terraform_builder.py: TerraformBuilder.                                 *)
(* The builder object is a dict of its attributes (self.X is self["X"]);   *)
(* an attribute that was never assigned is a key that is absent.  The      *)
(* content of a file is the sequence of the blocks written to it, a block  *)
(* being the fixed text it is an instance of and the values interpolated.  *)
(***************************************************************************)
DEFAULT_PROJECT == <<"w", "a", "f", "-", "p", "o", "l", "i", "c", "y">>
DEFAULT_ORDER == 999
DEFAULT_BODY_SIZE_LIMIT == 65536

\* TerraformBuilder.__init__: the object self, or the exception raised
TerraformBuilder_init(config) ==
    LET metadata == Get(config, "metadata", <<>>)
        project == Get(metadata, "project", DEFAULT_PROJECT)
        policy_version == Get(metadata, "policy_version", PyStr(<<"v", "1">>))
    IN  IF policy_version.type # "str" THEN Raise("AttributeError")
        ELSE Ok([config |-> config,
                 metadata |-> metadata,
                 settings |-> Get(config, "settings", <<>>),
                 rule_groups |-> Get(config, "rule_groups", <<>>),
                 project |-> project,
                 policy_version |-> Replace(policy_version.val, <<"v">>, <<>>),
                 account_id |-> Get(metadata, "account_id", <<>>),
                 service_name |-> Replace(Replace(project, <<"v", "8">>, <<>>),
                                          <<"v">>, <<>>)])

\* output_dir / self.project / "terraform" / name
PathOf(self, name) == [dir |-> self.project, file |-> name]

\* a write that appends to the file it finds
append_text(files, path, content) ==
    [q \in DOMAIN files \cup {path} |->
        IF q # path THEN files[q]
        ELSE IF path \in DOMAIN files THEN files[path] \o content ELSE content]

\* path.write_text(content): the file is created or truncated
write_text(files, path, content) ==
    [q \in DOMAIN files \cup {path} |-> IF q = path THEN content ELSE files[q]]

_generate_versions_tf(self) ==
    Ok(<<[block |-> "terraform", required_version |-> ">= 1.0",
          aws_version |-> ">= 5.0"]>>)

_generate_main_tf(self) ==
    LET scope == Get(self.settings, "scope", "REGIONAL")
    IN  Ok(<<[block |-> "locals", scope |-> scope]>>
           \o (IF scope = "CLOUDFRONT"
               THEN <<[block |-> "provider", alias |-> "waf"], [block |-> "provider", alias |-> ""]>>
               ELSE <<[block |-> "provider", alias |-> ""]>>))

\* variable blocks for the single ARN token alone
SingleArnVariables(rule_groups) ==
    LET Of(entry) ==
            IF Get(entry.group, "type", "") = "external" /\ Has(entry.group, "arn_variable")
            THEN <<[block |-> "variable", name |-> entry.group["arn_variable"], note |-> ""]>>
            ELSE <<>>
    IN  FoldLeft(LAMBDA acc, entry : acc \o Of(entry), <<>>, rule_groups)

\* the external groups' variable blocks, in the order the loop emits them
ExternalVariables(rule_groups) ==
    LET Of(entry) ==
            LET group == entry.group
                Var(key, note) ==
                    IF Has(group, key)
                    THEN <<[block |-> "variable", name |-> group[key], note |-> note]>>
                    ELSE <<>>
            IN  IF Get(group, "type", "") # "external" THEN <<>>
                ELSE Var("arn_variable", "") \o Var("arn_variable_count", "(count policy)")
                     \o Var("arn_variable_block", "(block policy)")
    IN  FoldLeft(LAMBDA acc, entry : acc \o Of(entry), <<>>, rule_groups)

_generate_variables_tf(self) ==
    Ok(<<[block |-> "base_variables",
          environment |-> Get(self.metadata, "environment", "production"),
          project |-> self.project,
          service_name |-> self.service_name,
          policy_version |-> self.policy_version,
          account_id |-> self.account_id,
          fms_admin_account |-> Get(self.settings, "fms_admin_account", <<>>)]>>
       \o ExternalVariables(self.rule_groups))

_get_resource_name(self, name, group) ==
    sanitize_resource_name(Replace(Get(group, "name", name), TOKEN_project, self.project))

_generate_modules_tf(self) ==
    LET Of(entry) ==
            IF Get(entry.group, "type", "") # "module" THEN <<>>
            ELSE <<[block |-> "module",
                    name |-> _get_resource_name(self, entry.key, entry.group),
                    source |-> Get(entry.group, "module_source", "")]>>
        modules_hcl == FoldLeft(LAMBDA acc, entry : acc \o Of(entry), <<>>, self.rule_groups)
    IN  Ok(IF modules_hcl # <<>> THEN <<[block |-> "header"]>> \o modules_hcl
           ELSE <<[block |-> "no_modules"]>>)

\* the text of one rule
_build_single_rule(self, rule, namespace) ==
    LET name == Get(rule, "name", <<"r", "u", "l", "e">>)
        label == Get(rule, "label", <<>>)
    IN  Then(build_statement(Get(rule, "statement", <<>>), self.config, 6),
             LAMBDA statement_hcl :
                 <<Line(2, "rule {", <<>>),
                   Line(4, "name     =", name),
                   Line(4, "priority =", IntToStr(Get(rule, "priority", 0)))>>
                 \o EmptyText
                 \o build_action(Get(rule, "action", "count"),
                                 Get(rule, "custom_response", <<>>), 4)
                 \o EmptyText
                 \o <<Line(4, "statement {", <<>>)>> \o statement_hcl
                 \o <<Line(4, "}", <<>>)>>
                 \o (IF label # <<>> THEN build_rule_labels(label, namespace, 4)
                     ELSE EmptyText)
                 \o build_visibility_config(name, 4)
                 \o <<Line(2, "}", <<>>)>>)

\* the rules the loop of _build_custom_rules visits, in the order it visits them
RulesInEmissionOrder(group) == Get(group, "rules", <<>>)

_build_custom_rules(self, group, namespace) ==
    Then(Gather(Map(LAMBDA rule : _build_single_rule(self, rule, namespace),
                    RulesInEmissionOrder(group))),
         LAMBDA rules_hcl : JoinLines(rules_hcl))

\* one aws_wafv2_rule_group resource: one turn of the loop of _generate_rule_groups_tf
RuleGroupResource(self, entry) ==
    LET group == entry.group
        group_name == Replace(Get(group, "name", entry.key), TOKEN_project, self.project)
    IN  Then(_build_custom_rules(self, group,
                                 Get(group, "namespace", <<"c", "u", "s", "t", "o", "m">>)),
             LAMBDA rules_hcl :
                 [block |-> "aws_wafv2_rule_group",
                  name |-> _get_resource_name(self, entry.key, group),
                  provider |-> IF Get(self.settings, "scope", "REGIONAL") = "CLOUDFRONT"
                               THEN "aws.waf" ELSE "",
                  display |-> group_name,
                  rules |-> rules_hcl,
                  metric_name |-> sanitize_resource_name(group_name)])

_generate_rule_groups_tf(self) ==
    Then(Gather(Map(LAMBDA entry : RuleGroupResource(self, entry),
                    SelectSeq(self.rule_groups,
                              LAMBDA entry : Get(entry.group, "type", "") = "custom"))),
         LAMBDA rule_groups_hcl :
             IF rule_groups_hcl # <<>> THEN <<[block |-> "header"]>> \o rule_groups_hcl
             ELSE <<[block |-> "no_rule_groups"]>>)

\* the key sorted() compares: x[1].get("order", 999)
OrderKey(entry) == Get(entry.group, "order", DEFAULT_ORDER)

RECURSIVE InsertByOrder(_, _)
\* sorted() is stable: x goes behind every element whose key is not greater
InsertByOrder(sorted, x) ==
    IF sorted = <<>> THEN <<x>>
    ELSE IF OrderKey(Head(sorted)) <= OrderKey(x)
         THEN <<Head(sorted)>> \o InsertByOrder(Tail(sorted), x)
         ELSE <<x>> \o sorted

\* the items as the mapping iterates them, unsorted
GroupsAsDeclared(rule_groups) == rule_groups

\* sorted(self.rule_groups.items(), key=lambda x: x[1].get("order", 999))
SortedGroups(rule_groups) == FoldLeft(InsertByOrder, <<>>, rule_groups)

\* group.get("include_in_count") == False
ExcludedFrom(group, mode) ==
    mode = "count" /\ Has(group, "include_in_count") /\ group["include_in_count"] = FALSE

\* one item of the list comprehension over group[overrides_key]
OverrideItem(override) ==
    IF ~Has(override, "name") \/ ~Has(override, "action") THEN Raise("KeyError")
    ELSE Ok([name |-> override["name"], actionToUse |-> override["action"]])

\* the rule_action_overrides list built from group[overrides_key], <<>> when the key
\* is absent (None)
RuleActionOverrides(group, mode) ==
    Gather(Map(OverrideItem,
               Get(group, IF mode = "count" THEN "rule_action_overrides_count"
                          ELSE "rule_action_overrides_block", <<>>)))

\* the ARN variable an external group resolves to in a mode, "" when it has none
ArnVar(group, mode) ==
    IF mode = "count" /\ Has(group, "arn_variable_count") THEN group["arn_variable_count"]
    ELSE IF mode = "block" /\ Has(group, "arn_variable_block") THEN group["arn_variable_block"]
    ELSE Get(group, "arn_variable", "")

\* a key that does not follow the mode
OverrideActionKeyOfBlock(mode) == "override_action_block"

\* f"override_action_{mode}"
OverrideActionKey(mode) ==
    IF mode = "count" THEN "override_action_count" ELSE "override_action_block"

\* the entry dict every branch builds
EntryDict(ruleGroupArn, override_type) ==
    [ruleGroupType |-> "RuleGroup",
     ruleGroupArn |-> ruleGroupArn,
     sampledRequestsEnabled |-> TRUE,
     overrideAction |-> override_type]

\* whether a branch attaches the per-rule override list to its entry
AttachesOverrides(rule_type) == rule_type = "external"

\* the type branches of one turn of the loop of _build_pre_process_rule_groups: the
\* zero or one (ref_type, ref_name, entry) appended; the tuple also records the key
\* of the group it was built from, which the code does not keep
MemberTuples(self, item, mode, rule_action_overrides) ==
    LET group == item.group
        rule_type == Get(group, "type", "")
        resource_name == _get_resource_name(self, item.key, group)
        override_type == Get(group, OverrideActionKey(mode), "NONE")
        Tuple(ref_type, ref_name, ruleGroupArn) ==
            <<[ref_type |-> ref_type, ref_name |-> ref_name, group |-> item.key,
               entry |-> IF AttachesOverrides(rule_type) /\ rule_action_overrides # <<>>
                         THEN EntryDict(ruleGroupArn, override_type)
                              @@ [ruleActionOverrides |-> rule_action_overrides]
                         ELSE EntryDict(ruleGroupArn, override_type)]>>
    IN  CASE rule_type = "external" ->
               IF ArnVar(group, mode) = "" THEN <<>>
               ELSE Tuple("var", <<ArnVar(group, mode)>>,
                          <<"${", "var", ".", ArnVar(group, mode), "}">>)
          [] rule_type = "custom" ->
               Tuple("resource",
                     <<"aws_wafv2_rule_group", ".">> \o resource_name \o <<".", "arn">>,
                     <<"${", "aws_wafv2_rule_group", ".">> \o resource_name
                         \o <<".", "arn", "}">>)
          [] rule_type = "module" ->
               Tuple("module",
                     <<"module", ".">> \o resource_name
                         \o <<".", Get(group, "output_arn", "arn")>>,
                     <<"${", "module", ".">> \o resource_name
                         \o <<".", Get(group, "output_arn", "arn"), "}">>)
          [] OTHER -> <<>>

\* one turn of the loop of _build_pre_process_rule_groups
MemberOf(self, item, mode) ==
    IF ExcludedFrom(item.group, mode) THEN Ok(<<>>)
    ELSE Then(RuleActionOverrides(item.group, mode),
              LAMBDA rule_action_overrides :
                  MemberTuples(self, item, mode, rule_action_overrides))

\* the list rule_groups of _build_pre_process_rule_groups when its loop ends
PreProcessEntries(self, mode) ==
    Then(Gather(Map(LAMBDA item : MemberOf(self, item, mode),
                    SortedGroups(self.rule_groups))),
         LAMBDA appended : FoldLeft(LAMBDA acc, tuples : acc \o tuples, <<>>, appended))

_format_rule_group_entry(entry) ==
    <<Line(0, "{", <<>>),
      Line(10, "ruleGroupType              =", <<entry.ruleGroupType>>),
      Line(10, "ruleGroupArn               =", entry.ruleGroupArn),
      Line(10, "sampledRequestsEnabled     =",
           <<IF entry.sampledRequestsEnabled THEN "true" ELSE "false">>),
      Line(10, "excludeRules               = []", <<>>),
      Line(10, "managedRuleGroupIdentifier = null", <<>>),
      Line(10, "overrideAction = {", <<>>),
      Line(12, "type =", <<entry.overrideAction>>),
      Line(10, "}", <<>>)>>
    \o (IF Has(entry, "ruleActionOverrides")
        THEN <<Line(10, "ruleActionOverrides = [", <<>>)>>
             \o FoldLeft(LAMBDA acc, override :
                             acc \o <<Line(12, "{", <<>>),
                                      Line(14, "name =", <<override.name>>),
                                      Line(14, "actionToUse = {", <<>>),
                                      Line(16, "= {}", <<override.actionToUse>>),
                                      Line(14, "}", <<>>),
                                      Line(12, "},", <<>>)>>,
                         <<>>, entry.ruleActionOverrides)
             \o <<Line(10, "]", <<>>)>>
        ELSE <<>>)
    \o <<Line(8, "}", <<>>)>>

\* the formatting loop of _build_pre_process_rule_groups over the list it built
FormatEntries(rule_groups) ==
    LET n == Len(rule_groups)
        EntryLines(i, entry_str) ==
            Embed(8, [k \in DOMAIN entry_str |->
                        IF k = Len(entry_str) /\ i < n
                        THEN [entry_str[k] EXCEPT !.key = "},"]
                        ELSE entry_str[k]])
    IN  IF n = 0 THEN <<Line(0, "[]", <<>>)>>
        ELSE <<Line(0, "[", <<>>)>>
             \o FoldLeft(LAMBDA acc, i :
                             acc \o EntryLines(i, _format_rule_group_entry(rule_groups[i].entry)),
                         <<>>, [i \in 1..n |-> i])
             \o <<Line(6, "]", <<>>)>>

_build_pre_process_rule_groups(self, mode) ==
    Then(PreProcessEntries(self, mode), FormatEntries)

\* a loop turn without the skip of the groups left out of the mode
DependsOfEveryMode(self, item, mode) ==
    LET resource_name == _get_resource_name(self, item.key, item.group)
        rule_type == Get(item.group, "type", "")
    IN  IF rule_type = "custom"
        THEN <<[group |-> item.key, ref |-> <<"aws_wafv2_rule_group", ".">> \o resource_name]>>
        ELSE IF rule_type = "module"
        THEN <<[group |-> item.key, ref |-> <<"module", ".">> \o resource_name]>>
        ELSE <<>>

\* a loop turn that names the group by its display name as configured
DependsOfDisplayName(self, item, mode) ==
    LET group_name == Replace(Get(item.group, "name", item.key), TOKEN_project, self.project)
        rule_type == Get(item.group, "type", "")
    IN  IF ExcludedFrom(item.group, mode) THEN <<>>
        ELSE IF rule_type = "custom"
        THEN <<[group |-> item.key, ref |-> <<"aws_wafv2_rule_group", ".">> \o group_name]>>
        ELSE IF rule_type = "module"
        THEN <<[group |-> item.key, ref |-> <<"module", ".">> \o group_name]>>
        ELSE <<>>

\* one turn of the loop of _build_depends_on: the zero or one reference appended,
\* which also records the key of the group it names
DependsOf(self, item, mode) ==
    LET resource_name == _get_resource_name(self, item.key, item.group)
        rule_type == Get(item.group, "type", "")
    IN  IF ExcludedFrom(item.group, mode) THEN <<>>
        ELSE IF rule_type = "custom"
        THEN <<[group |-> item.key, ref |-> <<"aws_wafv2_rule_group", ".">> \o resource_name]>>
        ELSE IF rule_type = "module"
        THEN <<[group |-> item.key, ref |-> <<"module", ".">> \o resource_name]>>
        ELSE <<>>

\* the list `depends` of _build_depends_on when its loop ends
DependsList(self, mode) ==
    FoldLeft(LAMBDA acc, item : acc \o DependsOf(self, item, mode), <<>>, self.rule_groups)

\* the formatting of the list `depends`
FormatDepends(depends) ==
    IF depends = <<>> THEN EmptyText
    ELSE <<Line(2, "depends_on = [", <<>>)>>
         \o [i \in DOMAIN depends |->
               Line(4, IF i < Len(depends) THEN "," ELSE "", depends[i].ref)]
         \o <<Line(2, "]", <<>>)>>

_build_depends_on(self, mode) == FormatDepends(DependsList(self, mode))

\* the names under which the policy stage emits the two aws_fms_policy resources
FmsResourceName(self, key, default) ==
    sanitize_resource_name(Replace(Get(self.settings, key, default), TOKEN_project,
                                   self.project))

\* self after lines 384-385 stored the two names on it
WithFmsNames(self) ==
    [n \in DOMAIN self \cup {"_fms_count_resource_name", "_fms_block_resource_name"} |->
        CASE n = "_fms_count_resource_name" ->
               FmsResourceName(self, "fms_policy_count_resource_name",
                               <<"c", "o", "u", "n", "t">>)
          [] n = "_fms_block_resource_name" ->
               FmsResourceName(self, "fms_policy_block_resource_name",
                               <<"b", "l", "o", "c", "k">>)
          [] OTHER -> self[n]]

\* one aws_fms_policy resource of fms_policy.tf
FmsPolicy(self, name, remediation, pre_process, mode) ==
    LET body_size_limit == Get(self.settings, "body_size_limit", DEFAULT_BODY_SIZE_LIMIT)
    IN  [block |-> "aws_fms_policy", name |-> name, mode |-> mode,
         resource_type |-> Get(self.settings, "resource_type", "AWS::CloudFront::Distribution"),
         remediation_enabled |-> remediation,
         scope |-> Get(self.settings, "scope", "REGIONAL"),
         body_size_kb |-> IF body_size_limit >= 1024
                          THEN <<"KB_">> \o IntToStr(body_size_limit \div 1024)
                          ELSE <<"KB_16">>,
         preProcessRuleGroups |-> pre_process,
         depends_on |-> _build_depends_on(self, mode)]

\* the content of fms_policy.tf, self being the builder with the two names stored
_generate_fms_policy_tf(self) ==
    Bind(_build_pre_process_rule_groups(self, "count"),
         LAMBDA pre_process_count :
             Then(_build_pre_process_rule_groups(self, "block"),
                  LAMBDA pre_process_block :
                      <<FmsPolicy(self, self["_fms_count_resource_name"], FALSE,
                                  pre_process_count, "count"),
                        FmsPolicy(self, self["_fms_block_resource_name"],
                                  Get(self.settings, "auto_remediation", TRUE),
                                  pre_process_block, "block")>>))

_generate_outputs_tf(self) ==
    LET has_custom_rules == \E i \in DOMAIN self.rule_groups :
                                Get(self.rule_groups[i].group, "type", "") = "custom"
        Of(item) ==
            IF Get(item.group, "type", "") # "module" THEN <<>>
            ELSE <<[block |-> "output",
                    name |-> _get_resource_name(self, item.key, item.group) \o <<"_arn">>,
                    value |-> <<"module", ".">> \o _get_resource_name(self, item.key, item.group)
                                \o <<".", Get(item.group, "output_arn", "arn")>>]>>
        fms_count_name == Get(self, "_fms_count_resource_name", <<"c", "o", "u", "n", "t">>)
        fms_block_name == Get(self, "_fms_block_resource_name", <<"b", "l", "o", "c", "k">>)
        Fms(name, resource, attr) ==
            [block |-> "output", name |-> <<name>>,
             value |-> <<"aws_fms_policy", ".">> \o resource \o <<".", attr>>]
    IN  Ok((IF has_custom_rules
            THEN <<[block |-> "output", name |-> <<"rule_group_arns">>,
                    value |-> <<"aws_wafv2_rule_group">>]>>
            ELSE <<>>)
           \o FoldLeft(LAMBDA acc, item : acc \o Of(item), <<>>, self.rule_groups)
           \o <<Fms("fms_policy_count_id", fms_count_name, "id"),
                Fms("fms_policy_count_arn", fms_count_name, "arn"),
                Fms("fms_policy_block_id", fms_block_name, "id"),
                Fms("fms_policy_block_arn", fms_block_name, "arn")>>)

(***************************************************************************)
(* test_generator.py is not among the sources: TestGenerator.generate is   *)
(* the collaborator that turns the validated config's test_definitions     *)
(* into the separate test-artifact set.                                    *)
(***************************************************************************)
TestGenerator_generate(config) == <<[block |-> "tests", of |-> config["test_definitions"]]>>

(***************************************************************************)
(* lambda_edge_crud.py: the CRUD function on the S3 bucket.  Strings are   *)
(* sequences of characters; None and the empty string are both <<>>, no    *)
(* collection or item id the function handles being empty; a request body  *)
(* is the value its JSON text decodes to, tagged with its kind.            *)
(***************************************************************************)
RECURSIVE LStrip(_, _)
LStrip(s, c) == IF s # <<>> /\ Head(s) = c THEN LStrip(Tail(s), c) ELSE s
RECURSIVE RStrip(_, _)
RStrip(s, c) ==
    IF s # <<>> /\ s[Len(s)] = c THEN RStrip(SubSeq(s, 1, Len(s) - 1), c) ELSE s

\* s.strip(c)
Strip(s, c) == RStrip(LStrip(s, c), c)

RECURSIVE Split(_, _)
\* s.split(c)
Split(s, c) ==
    IF c \notin Range(s) THEN <<s>>
    ELSE LET k == CHOOSE i \in DOMAIN s : s[i] = c /\ \A j \in 1..(i - 1) : s[j] # c
         IN  <<SubSeq(s, 1, k - 1)>> \o Split(SubSeq(s, k + 1, Len(s)), c)

\* c.join(parts)
Join(parts, c) ==
    IF parts = <<>> THEN <<>>
    ELSE FoldLeft(LAMBDA acc, part : acc \o <<c>> \o part, Head(parts), Tail(parts))

StartsWith(s, prefix) == Len(s) >= Len(prefix) /\ SubSeq(s, 1, Len(prefix)) = prefix
EndsWith(s, suffix) ==
    Len(s) >= Len(suffix) /\ SubSeq(s, Len(s) - Len(suffix) + 1, Len(s)) = suffix

\* urllib.parse.unquote, of the escapes: those of "-" and "/"
unquote(uri) == Replace(Replace(uri, <<"%", "2", "D">>, <<"-">>), <<"%", "2", "F">>, <<"/">>)

\* parse_qs(query_string).get('request', [None])[0]: the first non-blank value
\* given to the name request
RequestType(query_string) ==
    LET pairs == IF query_string = <<>> THEN <<>> ELSE Split(query_string, "&")
        named == SelectSeq(pairs, LAMBDA pair :
                     /\ StartsWith(pair, <<"r", "e", "q", "u", "e", "s", "t", "=">>)
                     /\ Len(pair) > 8)
    IN  IF named = <<>> THEN <<>> ELSE SubSeq(named[1], 9, Len(named[1]))

UUID_LENGTH == 36

parse_path(path) ==
    LET stripped == Strip(path, "/")
        parts == Split(stripped, "/")
        last_part == parts[Len(parts)]
    IN  IF stripped = <<>> THEN [collection |-> <<>>, item_id |-> <<>>]
        ELSE IF Len(parts) > 1 /\ ("-" \in Range(last_part) \/ Len(last_part) = UUID_LENGTH)
        THEN [collection |-> Join(SubSeq(parts, 1, Len(parts) - 1), "/"),
              item_id |-> last_part]
        ELSE [collection |-> stripped, item_id |-> <<>>]

JSON_SUFFIX == <<".", "j", "s", "o", "n">>

get_s3_key(collection, item_id) ==
    IF item_id # <<>> THEN collection \o <<"/">> \o item_id \o JSON_SUFFIX
    ELSE collection \o <<"/">>

\* the characters of the keys in the order of their code points
CodePoints ==
    <<"%", "-", ".", "/">> \o DigitChars \o UpperChars \o <<"_">> \o LowerChars
CodePoint(c) == CHOOSE i \in DOMAIN CodePoints : CodePoints[i] = c

RECURSIVE KeyBefore(_, _)
\* a < b as S3 orders keys
KeyBefore(a, b) ==
    IF a = <<>> THEN b # <<>>
    ELSE IF b = <<>> THEN FALSE
    ELSE IF Head(a) = Head(b) THEN KeyBefore(Tail(a), Tail(b))
    ELSE CodePoint(Head(a)) < CodePoint(Head(b))

RECURSIVE SortedKeys(_)
SortedKeys(keys) ==
    IF keys = {} THEN <<>>
    ELSE LET least == CHOOSE k \in keys : \A other \in keys \ {k} : KeyBefore(k, other)
         IN  <<least>> \o SortedKeys(keys \ {least})

\* s3_client.list_objects_v2(Prefix=prefix[, Delimiter='/'])['Contents']: the keys
\* under the prefix, with a delimiter those with no "/" behind the prefix
list_objects_v2(objects, prefix, delimited) ==
    SortedKeys({key \in DOMAIN objects :
                   /\ StartsWith(key, prefix)
                   /\ delimited => "/" \notin Range(SubSeq(key, Len(prefix) + 1, Len(key)))})

\* the keys list_items_in_collection goes on to read
ListedItemKeys(objects, collection) ==
    SelectSeq(list_objects_v2(objects, collection \o <<"/">>, TRUE),
              LAMBDA key : EndsWith(key, JSON_SUFFIX))

\* the keys delete_all_items goes on to delete
ListedForDelete(objects, collection) == list_objects_v2(objects, collection \o <<"/">>, FALSE)

\* get_item: the stored item, None for NoSuchKey
get_item(objects, collection, item_id) ==
    Get(objects, get_s3_key(collection, item_id), <<>>)

\* d[k] = v
With(d, k, v) == [x \in DOMAIN d \cup {k} |-> IF x = k THEN v ELSE d[x]]

\* put_item on a body of a kind: the metadata added to the dict, the object written;
\* a list has no string keys to test or set
put_item(objects, collection, item_id, body, now) ==
    IF body.kind # "dict" THEN Raise("TypeError")
    ELSE LET data == body.value
             d1 == IF ~Has(data, "id") THEN With(data, "id", item_id) ELSE data
             d2 == IF ~Has(d1, "created_at") THEN With(d1, "created_at", now) ELSE d1
             d3 == With(d2, "updated_at", now)
         IN  Ok([objects |-> With(objects, get_s3_key(collection, item_id), d3),
                 data |-> d3])

\* delete_object: the bucket without the key
delete_object(objects, key) == [k \in DOMAIN objects \ {key} |-> objects[k]]

\* existing_item.update(body)
dict_update(existing_item, body) ==
    IF body.kind # "dict" THEN Raise("ValueError")
    ELSE Ok([kind |-> "dict",
             value |-> [x \in DOMAIN existing_item \cup DOMAIN body.value |->
                          IF x \in DOMAIN body.value THEN body.value[x]
                          ELSE existing_item[x]]])

create_response(status_code, body) ==
    [status |-> IntToStr(status_code),
     statusDescription |-> IF status_code = 200 THEN "OK" ELSE "Error",
     body |-> body]

\* `not body`: None, {} left by a body that does not parse, an empty dict or list
NoBody(body) == body.kind = "none" \/ body.value = <<>>

W_all == <<"a", "l", "l">>
W_bulk == <<"b", "u", "l", "k">>
W_replace == <<"r", "e", "p", "l", "a", "c", "e">>

\* the branch handler takes on an event, lines 210-333
Route(event) ==
    LET parsed == parse_path(unquote(event.uri))
        request_type == RequestType(event.querystring)
        method == event.method
    IN  IF parsed.collection = <<>> THEN "invalid_path"
        ELSE IF method = "OPTIONS" THEN "preflight"
        ELSE IF method = "GET" THEN (IF parsed.item_id # <<>> THEN "get" ELSE "list")
        ELSE IF method = "POST"
        THEN (IF NoBody(event.body) THEN "body_required"
              ELSE IF request_type = W_bulk /\ event.body.kind = "list" THEN "bulk"
              ELSE "create")
        ELSE IF method \in {"PUT", "PATCH"}
        THEN (IF parsed.item_id = <<>> THEN "id_required"
              ELSE IF NoBody(event.body) THEN "body_required"
              ELSE IF method = "PATCH" \/ request_type # W_replace THEN "merge"
              ELSE "replace")
        ELSE IF method = "DELETE"
        THEN (IF request_type = W_all THEN "delete_all"
              ELSE IF parsed.item_id # <<>> THEN "delete"
              ELSE "id_required")
        ELSE "not_allowed"

(***************************************************************************)
(* waf_generator.py: main, one action per step of the CLI flow.            *)
(***************************************************************************)
VARIABLES
    config,       \* config_data, the parsed YAML document
    opts,         \* the flags validate_only, tests_only, terraform_only
    pc,           \* the step main is about to take
    validator,    \* the validator's errors and warnings lists
    is_valid,     \* what validate returned
    builder,      \* the TerraformBuilder object, <<>> before it is constructed
    files,        \* the output tree: path -> content
    exit_code,    \* the process exit code, -1 while main runs
    started,      \* the generators started in this run
    run,          \* how many times generation was asked for
    config0,      \* the config as it was loaded
    first_files,  \* the output tree as the previous run left it
    call,         \* a function of the package called on its own: its name and argument
    returned,     \* what that call returned, once it has
    bucket,       \* the S3 bucket of the CRUD function: object key -> stored item
    inflight      \* the requests the CRUD function was invoked with, each at its step

vars == <<config, opts, pc, validator, is_valid, builder, files, exit_code, started,
          run, config0, first_files, call, returned, bucket, inflight>>

\* a main that goes on whatever validate returned
ValidationIgnored(ok) == FALSE

\* line 74: if not is_valid
ValidationFailed(ok) == ~ok

\* where main goes once the Terraform part is over or skipped (line 92)
AfterTerraform == IF ~opts.terraform_only THEN "tests" ELSE "summary"

\* an uncaught exception ends the interpreter with exit code 1
Crash ==
    /\ pc' = "crashed"
    /\ exit_code' = 1

\* lines 62-67: yaml.safe_load succeeds or the run ends with exit code 1
Load ==
    /\ pc = "load"
    /\ \E loaded \in BOOLEAN :
          IF loaded THEN pc' = "validate" /\ exit_code' = exit_code
          ELSE pc' = "load_error" /\ exit_code' = 1
    /\ UNCHANGED <<bucket, inflight, call, returned, config, opts, validator, is_valid, builder, files, started, run,
                   config0, first_files>>

\* lines 69-80, result being what validator.validate(config_data) came to
Validated(result) ==
    /\ validator' = [errors |-> result.errors, warnings |-> result.warnings]
    /\ is_valid' = result.ok
    /\ IF ValidationFailed(result.ok) THEN pc' = "exit" /\ exit_code' = 1
       ELSE IF opts.validate_only THEN pc' = "exit" /\ exit_code' = 0
       ELSE /\ pc' = IF ~opts.tests_only THEN "construct" ELSE AfterTerraform
            /\ exit_code' = exit_code

Validate ==
    /\ pc = "validate"
    /\ Validated(validate(config))
    /\ UNCHANGED <<bucket, inflight, call, returned, config, opts, builder, files, started, run, config0, first_files>>

\* lines 85-87, made being what TerraformBuilder(config_data, debug=debug) came to
Constructed(made) ==
    IF made.err # NoErr THEN Crash /\ builder' = builder
    ELSE pc' = "versions_tf" /\ builder' = made.out /\ exit_code' = exit_code

Construct ==
    /\ pc = "construct"
    /\ started' = started \cup {"terraform"}
    /\ Constructed(TerraformBuilder_init(config))
    /\ UNCHANGED <<bucket, inflight, call, returned, config, opts, validator, is_valid, files, run, config0, first_files>>

\* one _generate_*_tf call of generate: build the content, then write the file
Stage(at, name, built, self1, next) ==
    /\ pc = at
    /\ builder' = self1
    /\ IF built.err # NoErr THEN Crash /\ files' = files
       ELSE /\ files' = write_text(files, PathOf(builder, name), built.out)
            /\ pc' = next
            /\ exit_code' = exit_code
    /\ UNCHANGED <<bucket, inflight, call, returned, config, opts, validator, is_valid, started, run, config0, first_files>>

GenerateVersions ==
    Stage("versions_tf", "versions.tf", _generate_versions_tf(builder), builder, "main_tf")
GenerateMain ==
    Stage("main_tf", "main.tf", _generate_main_tf(builder), builder, "variables_tf")
GenerateVariables ==
    Stage("variables_tf", "variables.tf", _generate_variables_tf(builder), builder, "modules_tf")
GenerateModules ==
    Stage("modules_tf", "modules.tf", _generate_modules_tf(builder), builder, "rule_groups_tf")
GenerateRuleGroups ==
    Stage("rule_groups_tf", "waf_rule_groups.tf", _generate_rule_groups_tf(builder), builder,
          "fms_policy_tf")
GenerateFmsPolicy ==
    Stage("fms_policy_tf", "fms_policy.tf", _generate_fms_policy_tf(WithFmsNames(builder)),
          WithFmsNames(builder), "outputs_tf")
GenerateOutputs ==
    Stage("outputs_tf", "outputs.tf", _generate_outputs_tf(builder), builder, AfterTerraform)

\* lines 92-100
GenerateTests ==
    /\ pc = "tests"
    /\ IF Get(config, "test_definitions", <<>>) # <<>>
       THEN /\ started' = started \cup {"tests"}
            /\ files' = write_text(files,
                                   [dir |-> Get(Get(config, "metadata", <<>>), "project",
                                                DEFAULT_PROJECT),
                                    file |-> "tests"],
                                   TestGenerator_generate(config))
       ELSE UNCHANGED <<started, files>>
    /\ pc' = "summary"
    /\ UNCHANGED <<bucket, inflight, call, returned, config, opts, validator, is_valid, builder, exit_code, run, config0,
                   first_files>>

\* lines 102-114: the summary is printed and main returns
Summary ==
    /\ pc = "summary"
    /\ pc' = "exit"
    /\ exit_code' = 0
    /\ UNCHANGED <<bucket, inflight, call, returned, config, opts, validator, is_valid, builder, files, started, run,
                   config0, first_files>>

\* lines 116-117: the command is run again on the same config file and output
\* directory, in a new process
Rerun ==
    /\ pc = "exit"
    /\ exit_code = 0
    /\ run < MaxRuns
    /\ pc' = "load"
    /\ exit_code' = -1
    /\ validator' = [errors |-> <<>>, warnings |-> <<>>]
    /\ is_valid' = FALSE
    /\ builder' = <<>>
    /\ started' = {}
    /\ run' = run + 1
    /\ first_files' = files
    /\ UNCHANGED <<bucket, inflight, call, returned, config, opts, files, config0>>

\* generate is called on the builder a second time
GenerateAgain ==
    /\ pc = "exit"
    /\ exit_code = 0
    /\ "terraform" \in started
    /\ run < MaxRuns
    /\ pc' = "versions_tf"
    /\ exit_code' = -1
    /\ run' = run + 1
    /\ first_files' = files
    /\ UNCHANGED <<bucket, inflight, call, returned, config, opts, validator, is_valid, builder, files, started, config0>>

\* a function of the package called from an importing program, fn being its name and
\* value what it comes to on call.args; main does not run
Called(fn, value) ==
    /\ pc = "imported"
    /\ call.fn = fn
    /\ ~returned.done
    /\ returned' = [done |-> TRUE, value |-> value]
    /\ UNCHANGED <<bucket, inflight, call, config, opts, pc, validator, is_valid, builder, files, exit_code,
                   started, run, config0, first_files>>

Call_sanitize_resource_name ==
    Called("sanitize_resource_name", sanitize_resource_name(call.args))

\* call.args is the record of the arguments statement, config and indent
Call_build_statement ==
    Called("build_statement",
           build_statement(call.args.statement, call.args.config, call.args.indent))

\* WAFPolicyValidator().validate(call.args): what it returns, the errors and the
\* warnings it leaves on the validator
Call_validate == Called("validate", validate(call.args))

\* call.args is the record of the arguments field and config
Call_build_field_to_match ==
    Called("build_field_to_match", build_field_to_match(call.args.field, call.args.config))

Call_build_single_rule ==
    Called("_build_single_rule",
           _build_single_rule(call.args.self, call.args.rule, call.args.namespace))

Call_parse_path == Called("parse_path", parse_path(call.args))

(***************************************************************************)
(* lambda_edge_crud.py: handler, one invocation per request in flight, one *)
(* action per call of the S3 client; invocations run side by side and      *)
(* share nothing but the bucket.                                           *)
(***************************************************************************)
\* the clock values datetime.utcnow() is read at
Times == {"T1", "T2"}

\* generate_id(): a version-4 UUID no object of the bucket is named by
generate_id(objects) ==
    LET used == {i \in DOMAIN DigitChars :
                    \E key \in DOMAIN objects :
                        EndsWith(key, [n \in 1..36 |-> IF n \in {9, 14, 19, 24} THEN "-"
                                                        ELSE DigitChars[i]] \o JSON_SUFFIX)}
        next == CHOOSE i \in DOMAIN DigitChars \ used :
                    \A j \in DOMAIN DigitChars \ used : i <= j
    IN  [n \in 1..36 |-> IF n \in {9, 14, 19, 24} THEN "-" ELSE DigitChars[next]]

\* collection, item_id = parse_path(unquote(request['uri']))
PathOfRequest(req) == parse_path(unquote(req.event.uri))

\* the request is handled from its first line: the client sent it, having had
\* the responses it waited for
Begins(r, route) ==
    /\ inflight[r].pc = "received"
    /\ \A q \in inflight[r].after : inflight[q].pc = "done"
    /\ Route(inflight[r].event) = route

\* return create_response(status_code, body)
Responded(req, status_code, body) ==
    [req EXCEPT !.pc = "done", !.response = create_response(status_code, body)]

\* the except clause of handler
Failed(req, e) ==
    Responded(req, 500, [error |-> "Internal server error", message |-> e])

\* a step of the invocation r that leaves the bucket as `objects`
Handle(r, objects, req) ==
    /\ inflight' = [inflight EXCEPT ![r] = req]
    /\ bucket' = objects
    /\ UNCHANGED <<call, returned, config, opts, pc, validator, is_valid, builder, files,
                   exit_code, started, run, config0, first_files>>

\* lines 213-223, 248-252, 274-284, 323-333: the responses given without a call of S3
RespondDirectly ==
    \E r \in DOMAIN inflight :
        \E route \in {"invalid_path", "preflight", "body_required", "id_required", "not_allowed"} :
            /\ Begins(r, route)
            /\ Handle(r, bucket,
                      CASE route = "invalid_path" ->
                             Responded(inflight[r], 400, [error |-> "Invalid path"])
                        [] route = "preflight" -> Responded(inflight[r], 200, <<>>)
                        [] route = "not_allowed" ->
                             Responded(inflight[r], 405, [error |-> "Method not allowed"])
                        [] OTHER ->
                             Responded(inflight[r], 400, [error |-> "Bad request", of |-> route]))

\* lines 227-236
GetOne ==
    \E r \in DOMAIN inflight :
        LET path == PathOfRequest(inflight[r])
            item == get_item(bucket, path.collection, path.item_id)
        IN  /\ Begins(r, "get")
            /\ Handle(r, bucket,
                      IF item # <<>> THEN Responded(inflight[r], 200, item)
                      ELSE Responded(inflight[r], 404, [error |-> "Not found", of |-> path]))

\* the response of a listing
Listing(req, items) ==
    Responded([req EXCEPT !.pending = <<>>, !.items = items], 200,
              [collection |-> PathOfRequest(req).collection, count |-> Len(items),
               items |-> items])

\* lines 239, 61-67: list_objects_v2 of list_items_in_collection
ListCollection ==
    \E r \in DOMAIN inflight :
        LET keys == ListedItemKeys(bucket, PathOfRequest(inflight[r]).collection)
        IN  /\ Begins(r, "list")
            /\ Handle(r, bucket,
                      IF keys = <<>> THEN Listing(inflight[r], <<>>)
                      ELSE [inflight[r] EXCEPT !.pc = "reading", !.pending = keys])

\* lines 71-84, 240-244: one get_object of the loop, an object gone by now skipped
ReadListed ==
    \E r \in DOMAIN inflight :
        LET req == inflight[r]
            key == Head(req.pending)
            items == IF key \in DOMAIN bucket THEN Append(req.items, bucket[key]) ELSE req.items
        IN  /\ req.pc = "reading"
            /\ Handle(r, bucket,
                      IF Tail(req.pending) = <<>> THEN Listing(req, items)
                      ELSE [req EXCEPT !.pending = Tail(req.pending), !.items = items])

\* lines 268-270
CreateOne ==
    \E r \in DOMAIN inflight, now \in Times :
        LET path == PathOfRequest(inflight[r])
            new_id == IF path.item_id # <<>> THEN path.item_id ELSE generate_id(bucket)
            put == put_item(bucket, path.collection, new_id, inflight[r].event.body, now)
        IN  /\ Begins(r, "create")
            /\ IF put.err # NoErr THEN Handle(r, bucket, Failed(inflight[r], put.err))
               ELSE Handle(r, put.out.objects, Responded(inflight[r], 201, put.out.data))

\* lines 255-265: one turn of the loop over the list of the body
CreateBulk ==
    \E r \in DOMAIN inflight, now \in Times :
        LET req == inflight[r]
            remaining == IF req.pc = "received" THEN req.event.body.value ELSE req.pending
            put == put_item(bucket, PathOfRequest(req).collection, generate_id(bucket),
                            [kind |-> "dict", value |-> Head(remaining)], now)
            created == Append(req.items, put.out.data)
        IN  /\ Begins(r, "bulk") \/ req.pc = "creating"
            /\ Handle(r, put.out.objects,
                      IF Tail(remaining) = <<>>
                      THEN Responded([req EXCEPT !.pending = <<>>, !.items = created], 201,
                                     [created |-> Len(created), items |-> created])
                      ELSE [req EXCEPT !.pc = "creating", !.pending = Tail(remaining),
                                       !.items = created])

\* line 288: get_item of a merging update
ReadExisting ==
    \E r \in DOMAIN inflight :
        LET path == PathOfRequest(inflight[r])
        IN  /\ Begins(r, "merge")
            /\ Handle(r, bucket,
                      [inflight[r] EXCEPT
                          !.pc = "merging",
                          !.existing_item = get_item(bucket, path.collection, path.item_id)])

\* lines 289-294, 299: the body merged into the item read, and put_item
WriteUpdate ==
    \E r \in DOMAIN inflight, now \in Times :
        LET req == inflight[r]
            path == PathOfRequest(req)
            data == IF req.existing_item # <<>> THEN dict_update(req.existing_item, req.event.body)
                    ELSE Ok(req.event.body)
            put == Bind(data, LAMBDA d : put_item(bucket, path.collection, path.item_id, d, now))
        IN  /\ req.pc = "merging"
            /\ IF put.err # NoErr THEN Handle(r, bucket, Failed(req, put.err))
               ELSE Handle(r, put.out.objects, Responded(req, 200, put.out.data))

\* lines 295-299
ReplaceItem ==
    \E r \in DOMAIN inflight, now \in Times :
        LET path == PathOfRequest(inflight[r])
            put == put_item(bucket, path.collection, path.item_id, inflight[r].event.body, now)
        IN  /\ Begins(r, "replace")
            /\ IF put.err # NoErr THEN Handle(r, bucket, Failed(inflight[r], put.err))
               ELSE Handle(r, put.out.objects, Responded(inflight[r], 200, put.out.data))

\* the response of a DELETE with request=all
AllDeleted(req) ==
    Responded([req EXCEPT !.pending = <<>>], 200,
              [message |-> "All items deleted", collection |-> PathOfRequest(req).collection])

\* lines 303-305, 146-150: list_objects_v2 of delete_all_items
ListForDelete ==
    \E r \in DOMAIN inflight :
        LET keys == ListedForDelete(bucket, PathOfRequest(inflight[r]).collection)
        IN  /\ Begins(r, "delete_all")
            /\ Handle(r, bucket,
                      IF keys = <<>> THEN AllDeleted(inflight[r])
                      ELSE [inflight[r] EXCEPT !.pc = "deleting", !.pending = keys])

\* lines 152-158, 306-308: one delete_object of the loop
DeleteListed ==
    \E r \in DOMAIN inflight :
        LET req == inflight[r]
        IN  /\ req.pc = "deleting"
            /\ Handle(r, delete_object(bucket, Head(req.pending)),
                      IF Tail(req.pending) = <<>> THEN AllDeleted(req)
                      ELSE [req EXCEPT !.pending = Tail(req.pending)])

\* lines 309-316: get_item of the DELETE of one item
FindForDelete ==
    \E r \in DOMAIN inflight :
        LET path == PathOfRequest(inflight[r])
            existing_item == get_item(bucket, path.collection, path.item_id)
        IN  /\ Begins(r, "delete")
            /\ Handle(r, bucket,
                      IF existing_item = <<>>
                      THEN Responded(inflight[r], 404, [error |-> "Not found", of |-> path])
                      ELSE [inflight[r] EXCEPT !.pc = "removing",
                                               !.existing_item = existing_item])

\* lines 318-322
DeleteFound ==
    \E r \in DOMAIN inflight :
        LET req == inflight[r]
            path == PathOfRequest(req)
        IN  /\ req.pc = "removing"
            /\ Handle(r, delete_object(bucket, get_s3_key(path.collection, path.item_id)),
                      Responded(req, 200, [message |-> "deleted",
                                           deleted_item |-> req.existing_item]))

NextHandler ==
    \/ RespondDirectly
    \/ GetOne
    \/ ListCollection
    \/ ReadListed
    \/ CreateOne
    \/ CreateBulk
    \/ ReadExisting
    \/ WriteUpdate
    \/ ReplaceItem
    \/ ListForDelete
    \/ DeleteListed
    \/ FindForDelete
    \/ DeleteFound

Next ==
    \/ Load
    \/ Validate
    \/ Construct
    \/ GenerateVersions
    \/ GenerateMain
    \/ GenerateVariables
    \/ GenerateModules
    \/ GenerateRuleGroups
    \/ GenerateFmsPolicy
    \/ GenerateOutputs
    \/ GenerateTests
    \/ Summary
    \/ Rerun
    \/ GenerateAgain

\* a single invocation of the command
NextOnce ==
    \/ Load
    \/ Validate
    \/ Construct
    \/ GenerateVersions
    \/ GenerateMain
    \/ GenerateVariables
    \/ GenerateModules
    \/ GenerateRuleGroups
    \/ GenerateFmsPolicy
    \/ GenerateOutputs
    \/ GenerateTests
    \/ Summary

(***************************************************************************)
(* The configurations the model runs on.                                   *)
(***************************************************************************)
PROJECT == <<"p", "a", "y">>
ACCOUNT == <<"1", "2", "3", "4", "5", "6", "7", "8", "9", "0", "1", "2">>
Metadata == [project |-> PROJECT, policy_name |-> <<"w", "a", "f">>, account_id |-> ACCOUNT]
Settings == [scope |-> "REGIONAL"]
TestDefinitions ==
    [test_suites |-> <<[name |-> <<"s">>, tests |-> <<[id |-> <<"t">>, request |-> <<"r">>]>>]>>]

\* dicts with an optional key: the key absent, or present with one of the values
Opt(key, values) == {<<>>} \cup {key :> v : v \in values}
Merge(A, B) == {a @@ b : a \in A, b \in B}

ByteMatch(text) ==
    [byte_match |-> [field |-> PyStr(W_BODY), search_string |-> text,
                     positional_constraint |-> "CONTAINS"]]
Rule(name, priority, statement) ==
    [name |-> name, priority |-> priority, action |-> "block", statement |-> statement]
OneRule == <<Rule(<<"r", "1">>, 1, ByteMatch(<<"x">>))>>

\* the i-th key of rule_groups
KeyAt(i) == <<LowerChars[i]>>

Override(name, action) == [name |-> name, action |-> action]

\* what each group type needs to pass validation; external groups in every
\* combination of ARN tokens the validator accepts
ExternalArns ==
    {[arn_variable |-> "waf_arn"],
     [arn_variable_count |-> "waf_arn_count"],
     [arn_variable_block |-> "waf_arn_block"],
     [arn_variable_count |-> "waf_arn_count", arn_variable_block |-> "waf_arn_block"],
     [arn_variable |-> "waf_arn", arn_variable_count |-> "waf_arn_count"]}
TypedGroups ==
    {[type |-> "ip_set", ip_addresses |-> <<[octets |-> <<10, 0, 0, 0>>, prefix |-> 8]>>],
     [type |-> "managed", managed_rule_group |-> "AWSManagedRulesCommonRuleSet"],
     [type |-> "custom", rules |-> OneRule],
     [type |-> "module", module_source |-> "./modules/catch"]}
    \cup Merge({[type |-> "external"]}, ExternalArns)
PlainGroups ==
    {g \in TypedGroups : g.type # "external" \/ DOMAIN g = {"type", "arn_variable"}}

Orders == Opt("order", 1..MaxOrder)
Inclusions == Opt("include_in_count", BOOLEAN)
OverrideActions ==
    Merge(Opt("override_action_count", {"COUNT", "NONE"}),
          Opt("override_action_block", {"COUNT"}))
OverrideLists ==
    Merge(Opt("rule_action_overrides_count",
              {<<>>, <<Override("RuleA", "count"), Override("RuleB", "block")>>}),
          Opt("rule_action_overrides_block", {<<Override("RuleA", "allow")>>}))

\* one group, every combination of its per-variant settings
OneGroupFamily ==
    {<<[key |-> KeyAt(1), group |-> g]>> :
        g \in Merge(Merge(TypedGroups, Merge(Inclusions, Opt("order", {1}))),
                    Merge(OverrideActions, OverrideLists))}

\* two groups of every type, order and inclusion
TwoGroupShapes == Merge(PlainGroups, Merge(Orders, Inclusions))
TwoGroupFamily ==
    {<<[key |-> KeyAt(1), group |-> g1], [key |-> KeyAt(2), group |-> g2]>> :
        g1 \in TwoGroupShapes, g2 \in TwoGroupShapes}

\* up to MaxGroups groups that become members, in every order of declaration
ManyGroupShapes == Merge({g \in PlainGroups : g.type \in {"custom", "external"}}, Orders)
ManyGroupFamily ==
    {[i \in 1..MaxGroups |-> [key |-> KeyAt(i), group |-> f[i]]] :
        f \in [1..MaxGroups -> ManyGroupShapes]}

\* custom and module groups under a display name or under their key alone, the names
\* and keys carrying the project token and characters outside the identifier grammar
DisplayNames ==
    {<<"G", "1">>, TOKEN_project \o <<"-", "w", "a", "f">>, <<"M", "y", " ", "G", "!">>}
NamedShapes ==
    Merge({g \in PlainGroups : g.type \in {"custom", "module"}}, Opt("name", DisplayNames))
NamedGroupFamily ==
    {<<[key |-> KeyAt(1), group |-> g1], [key |-> <<"k", "-", "2">>, group |-> g2]>> :
        g1 \in NamedShapes, g2 \in NamedShapes}

ConfigOf(rule_groups) ==
    [version |-> "1.0", metadata |-> Metadata, settings |-> Settings,
     rule_groups |-> rule_groups, test_definitions |-> TestDefinitions]

GroupConfigs ==
    {ConfigOf(gs) : gs \in OneGroupFamily \cup TwoGroupFamily \cup ManyGroupFamily
                          \cup NamedGroupFamily}

\* the CLI runs: one custom group whose rule carries each shape of statement
Text(word) == <<word>>
Statements ==
    {ByteMatch(Text("x")),
     [byte_match |-> [field |-> PyStr(W_SINGLE_HEADER), header_name |-> Text("H"),
                      search_string |-> Text("x")]],
     [byte_match |-> [field |-> PyNone, search_string |-> Text("x")]],
     [sqli_match |-> [field |-> PyStr(W_QUERY_STRING)]],
     [xss_match |-> [field |-> PyStr(W_URI_PATH),
                     text_transformations |-> <<[priority |-> 0, type |-> "URL_DECODE"]>>]],
     [size_constraint |-> [field |-> PyStr(W_BODY), comparison_operator |-> "GT",
                           size |-> PyInt(8)]],
     [regex_match |-> [field |-> PyStr(W_METHOD), regex_string |-> Text("a")]],
     [label_match |-> [scope |-> "LABEL", key |-> PyStr(TOKEN_account_id)]],
     [or_methods |-> PyList(<<PyStr(<<"G", "E", "T">>), PyStr(<<"P", "U", "T">>)>>)],
     [or_methods |-> PyList(<<PyInt(1)>>)],
     [or_hosts |-> PyStr(TOKEN_allowed_hosts)],
     [or_hosts |-> PyList(<<PyStr(Text("h"))>>)],
     [and |-> <<ByteMatch(Text("x")), [not |-> ByteMatch(Text("y"))]>>],
     [or |-> <<ByteMatch(Text("x")), ByteMatch(Text("y"))>>]}

CustomGroup(rules) == <<[key |-> KeyAt(1), group |-> [type |-> "custom", rules |-> rules]]>>

StatementConfigs ==
    {ConfigOf(CustomGroup(<<Rule(Text("r"), 1, st)>>)) : st \in Statements}

\* rules declared out of priority order
PriorityRules ==
    <<Rule(<<"r", "3", "0">>, 30, ByteMatch(Text("x"))),
      Rule(<<"r", "1", "0">>, 10, ByteMatch(Text("y"))),
      Rule(<<"r", "2", "0">>, 20, ByteMatch(Text("z")))>>

\* a policy of one group of each member kind
MixedGroups ==
    <<[key |-> KeyAt(1), group |-> [type |-> "custom", rules |-> PriorityRules, order |-> 2]],
      [key |-> KeyAt(2), group |-> [type |-> "external", arn_variable |-> "waf_arn",
                                    order |-> 1, include_in_count |-> FALSE]],
      [key |-> KeyAt(3), group |-> [type |-> "module", module_source |-> "./modules/catch"]]>>

\* the same policy under each shape of the sections the validator looks at
SectionConfigs ==
    LET base == ConfigOf(MixedGroups)
    IN  {base,
         ConfigOf(CustomGroup(<<Rule(Text("r"), 1, [or_hosts |-> PyStr(TOKEN_allowed_hosts)])>>))
            @@ [allowed_hosts |-> <<[host |-> Text("h"), match |-> "STARTS_WITH"],
                                    [host |-> Text("g")]>>],
         [k \in DOMAIN base \ {"test_definitions"} |-> base[k]],
         [k \in DOMAIN base \ {"version"} |-> base[k]],
         [base EXCEPT !.settings = [scope |-> "GLOBAL"]],
         [base EXCEPT !.settings = [scope |-> "CLOUDFRONT"]],
         [base EXCEPT !.metadata = [project |-> PROJECT, policy_name |-> Text("w"),
                                    account_id |-> <<"1", "2">>]],
         [base EXCEPT !.metadata = [project |-> PROJECT, account_id |-> <<"1", "2">>]],
         [base EXCEPT !.metadata = Metadata @@ [policy_version |-> PyStr(<<"v", "2">>)]],
         [base EXCEPT !.metadata = Metadata @@ [policy_version |-> PyInt(2)]],
         [base EXCEPT !.rule_groups =
             <<[key |-> KeyAt(1),
                group |-> [type |-> "external", arn_variable |-> "waf_arn",
                           rule_action_overrides_block |-> <<[name |-> "RuleA"]>>]]>>],
         [base EXCEPT !.rule_groups =
             <<[key |-> KeyAt(1), group |-> [type |-> "custom", rules |-> OneRule, order |-> 1]],
               [key |-> KeyAt(2), group |-> [type |-> "module", order |-> 1,
                                             module_source |-> "./modules/catch"]]>>]}

CLIConfigs == StatementConfigs \cup SectionConfigs

Flags == [validate_only : BOOLEAN, tests_only : BOOLEAN, terraform_only : BOOLEAN]

\* what an earlier run, of another version of the policy, left in the output directory
StaleTree ==
    [path \in {[dir |-> PROJECT, file |-> "main.tf"], [dir |-> PROJECT, file |-> "old.tf"]} |->
        <<[block |-> "stale"]>>]

NoFlags == [validate_only |-> FALSE, tests_only |-> FALSE, terraform_only |-> FALSE]

InitWith(configs, flags, trees) ==
    /\ config \in configs
    /\ opts \in flags
    /\ files \in trees
    /\ pc = "load"
    /\ validator = [errors |-> <<>>, warnings |-> <<>>]
    /\ is_valid = FALSE
    /\ builder = <<>>
    /\ exit_code = -1
    /\ started = {}
    /\ run = 1
    /\ config0 = config
    /\ first_files = files
    /\ call = <<>>
    /\ returned = <<>>
    /\ bucket = <<>>
    /\ inflight = <<>>

InitGroups == InitWith(GroupConfigs, {NoFlags}, {<<>>})

\* the policy assembler on every shape of rule group, one invocation each
SpecGroups == InitGroups /\ [][NextOnce]_vars

Init == InitWith(CLIConfigs, Flags, {<<>>, StaleTree})

\* the command under every flag, on an empty or a used output directory, run again
\* up to MaxRuns times
Spec == Init /\ [][Next]_vars

\* a program that imports the package and calls one function of it
Imported(calls) ==
    /\ call \in calls
    /\ returned = [done |-> FALSE]
    /\ pc = "imported"
    /\ config = <<>>
    /\ opts = NoFlags
    /\ files = <<>>
    /\ validator = [errors |-> <<>>, warnings |-> <<>>]
    /\ is_valid = FALSE
    /\ builder = <<>>
    /\ exit_code = -1
    /\ started = {}
    /\ run = 1
    /\ config0 = config
    /\ first_files = files
    /\ bucket = <<>>
    /\ inflight = <<>>

CallOf(fn, arguments) == {[fn |-> fn, args |-> a] : a \in arguments}

\* the names up to MaxNameLen characters over a letter, a digit, the underscore and
\* three characters outside the identifier grammar, and the name of the example
MaxNameLen == 3
NameChars == {"M", "y", "1", "_", " ", "!", "-"}
ResourceNames ==
    UNION {[1..n -> NameChars] : n \in 0..MaxNameLen}
    \cup {<<"M", "y", " ", "G", "r", "o", "u", "p", "!", "!">>}

InitNames == Imported(CallOf("sanitize_resource_name", ResourceNames))
NextNames == Call_sanitize_resource_name
SpecNames == InitNames /\ [][NextNames]_vars

\* the statements compiled on their own, at the indentations _build_single_rule and
\* a combinator one level down pass
Indents == {6, 8}
StatementCalls(statements, configs) ==
    CallOf("build_statement",
           [statement : statements, config : configs, indent : Indents])

\* or_methods over every list of up to MaxVerbs verbs, in upper, lower and mixed case
MaxVerbs == 3
Verbs == {<<"G", "E", "T">>, <<"P", "o", "s", "t">>, <<"p", "u", "t">>,
          <<"D", "E", "L", "E", "T", "E">>}
VerbLists == UNION {[1..n -> Verbs] : n \in 0..MaxVerbs}
MethodStatements ==
    {[or_methods |-> PyList([i \in DOMAIN verbs |-> PyStr(verbs[i])])] : verbs \in VerbLists}

InitMethods == Imported(StatementCalls(MethodStatements, {ConfigOf(<<>>)}))
NextMethods == Call_build_statement
SpecMethods == InitMethods /\ [][NextMethods]_vars

\* or_hosts by the token and by an inline list, over every list of up to MaxHosts
\* hosts with and without a match type, under configs with every such global list
\* and with none
MaxHosts == 2
HostDefs ==
    {[host |-> <<"a", ".", "e", "x">>],
     [host |-> <<"b", ".", "e", "x">>, match |-> "STARTS_WITH"],
     [host |-> <<"c">>, match |-> "ENDS_WITH"]}
HostLists == UNION {[1..n -> HostDefs] : n \in 0..MaxHosts}
HostStatements ==
    {[or_hosts |-> PyStr(TOKEN_allowed_hosts)]}
    \cup {[or_hosts |-> PyList(hosts)] : hosts \in HostLists}
HostConfigs ==
    {ConfigOf(<<>>)} \cup {ConfigOf(<<>>) @@ [allowed_hosts |-> hosts] : hosts \in HostLists}

InitHosts == Imported(StatementCalls(HostStatements, HostConfigs))
NextHosts == Call_build_statement
SpecHosts == InitHosts /\ [][NextHosts]_vars

\* ip_set groups over every list of up to MaxAddresses addresses, valid ones (a
\* network, a host address, the default route) and invalid ones (a prefix above 32,
\* an octet above 255, three octets), alone and next to a second ip_set group
MaxAddresses == 2
Cidrs ==
    {[octets |-> <<10, 0, 0, 0>>, prefix |-> 8],
     [octets |-> <<192, 168, 1, 1>>, prefix |-> 32],
     [octets |-> <<0, 0, 0, 0>>, prefix |-> 0],
     [octets |-> <<10, 0, 0, 0>>, prefix |-> 33],
     [octets |-> <<256, 0, 0, 0>>, prefix |-> 8],
     [octets |-> <<1, 2, 3>>, prefix |-> 24]}
CidrLists(max) == UNION {[1..n -> Cidrs] : n \in 0..max}
IpSet(ip_addresses) == [type |-> "ip_set", ip_addresses |-> ip_addresses]
CidrConfigs ==
    {ConfigOf(<<[key |-> KeyAt(1), group |-> IpSet(ips)]>>) : ips \in CidrLists(MaxAddresses)}
    \cup {ConfigOf(<<[key |-> KeyAt(1), group |-> IpSet(ips1)],
                     [key |-> KeyAt(2), group |-> IpSet(ips2)]>>) :
             ips1 \in CidrLists(1), ips2 \in CidrLists(1)}

InitCidrs == Imported(CallOf("validate", CidrConfigs))
NextCidrs == Call_validate
SpecCidrs == InitCidrs /\ [][NextCidrs]_vars

\* a clean config and configs with a fault for each semantic check to find, each
\* with every subset of the required sections left out
FaultyConfigs ==
    LET base == ConfigOf(MixedGroups)
    IN  {base,
         [base EXCEPT !.metadata = [policy_name |-> <<"w", "a", "f">>,
                                    account_id |-> <<"1", "2">>]],
         [base EXCEPT !.settings = [scope |-> "GLOBAL", default_action |-> "drop"]],
         [base EXCEPT !.rule_groups =
             <<[key |-> KeyAt(1),
                group |-> [type |-> "ip_set",
                           ip_addresses |-> <<[octets |-> <<10, 0, 0, 0>>, prefix |-> 33]>>]]>>],
         [base EXCEPT !.test_definitions =
             [test_suites |-> <<[name |-> <<"s">>, tests |-> <<[id |-> <<"t">>]>>]>>]]
            @@ [allowed_hosts |-> <<[match |-> "EXACTLY"]>>,
                security_policy |-> [first_rule_groups |-> <<<<"z">>>>]],
         [base EXCEPT !.version = "2.0",
                      !.rule_groups = <<[key |-> KeyAt(1), group |-> [type |-> "managed"]]>>]}
Without(cfg, sections) == [k \in DOMAIN cfg \ sections |-> cfg[k]]
PartialConfigs ==
    {Without(cfg, absent) : cfg \in FaultyConfigs, absent \in SUBSET Range(REQUIRED_SECTIONS)}

InitSections == Imported(CallOf("validate", PartialConfigs))
NextSections == Call_validate
SpecSections == InitSections /\ [][NextSections]_vars

\* the leaves with a free-text field, the text made of up to MaxSegments segments: a
\* plain character, the account token, another token
MaxSegments == 2
Segments == {<<"x">>, TOKEN_account_id, TOKEN_project}
Texts ==
    {FoldLeft(LAMBDA acc, seg : acc \o seg, <<>>, segs) :
        segs \in UNION {[1..n -> Segments] : n \in 0..MaxSegments}}
TemplateStatements ==
    {ByteMatch(text) : text \in Texts}
    \cup {[regex_match |-> [field |-> PyStr(W_URI_PATH), regex_string |-> text]] :
             text \in Texts}
    \cup {[label_match |-> [scope |-> "LABEL", key |-> PyStr(text)]] : text \in Texts}
TemplateConfigs ==
    {ConfigOf(<<>>), [ConfigOf(<<>>) EXCEPT !.metadata.account_id = <<"4", "2">>]}

InitTemplates == Imported(StatementCalls(TemplateStatements, TemplateConfigs))
NextTemplates == Call_build_statement
SpecTemplates == InitTemplates /\ [][NextTemplates]_vars

\* every field the validator accepts, in upper and in lower case, a field it does
\* not know and the empty one, on leaves with and without an oversize handling and
\* a header name
FieldNames ==
    VALID_FIELDS \cup {Lower(field) : field \in VALID_FIELDS} \cup {<<"I", "P">>, <<>>}
FieldLeaves ==
    Merge(Opt("oversize_handling", {"MATCH", "NO_MATCH"}),
          Opt("header_name", {<<"H">>, <<"X", "-", "I", "d">>}))
FieldCalls ==
    CallOf("build_field_to_match",
           {[field |-> PyStr(field), config |-> leaf] :
               field \in FieldNames, leaf \in FieldLeaves})

InitFields == Imported(FieldCalls)
NextFields == Call_build_field_to_match
SpecFields == InitFields /\ [][NextFields]_vars

\* nodes with none of the recognized keys, on their own and under up to MaxDepth
\* combinators of each kind
MaxDepth == 2
UnknownNodes == {<<>>, [geo_match |-> PyStr(<<"G", "B">>)], [ip_set |-> PyStr(<<"a">>)]}
RECURSIVE NestedUnder(_, _)
NestedUnder(nodes, depth) ==
    IF depth = 0 THEN nodes
    ELSE LET inner == NestedUnder(nodes, depth - 1)
         IN  {[and |-> <<sub>>] : sub \in inner}
             \cup {[or |-> <<ByteMatch(Text("x")), sub>>] : sub \in inner}
             \cup {[not |-> sub] : sub \in inner}
UnknownStatements == UNION {NestedUnder(UnknownNodes, depth) : depth \in 0..MaxDepth}

\* each statement handed to the compiler, and to the validator in the one rule of a
\* custom group
RuleConfigs(statements) ==
    {ConfigOf(CustomGroup(<<Rule(Text("r"), 1, st)>>)) : st \in statements}

InitUnknown ==
    Imported(StatementCalls(UnknownStatements, {ConfigOf(<<>>)})
             \cup CallOf("validate", RuleConfigs(UnknownStatements)))
NextUnknown ==
    \/ Call_build_statement
    \/ Call_validate
SpecUnknown == InitUnknown /\ [][NextUnknown]_vars

\* combinators over every list of up to MaxChildren children, and nodes that carry
\* one or two of the recognized keys, with values the validator finds fault with
\* among them
MaxChildren == 2
Children ==
    {ByteMatch(Text("x")), [sqli_match |-> [field |-> PyStr(W_QUERY_STRING)]],
     [not |-> ByteMatch(Text("y"))], [or_methods |-> PyList(<<PyStr(<<"G", "E", "T">>)>>)]}
ChildLists == UNION {[1..n -> Children] : n \in 0..MaxChildren}
CombinatorStatements ==
    {[and |-> subs] : subs \in ChildLists} \cup {[or |-> subs] : subs \in ChildLists}
    \cup {[not |-> sub] : sub \in Children}
KeyValues ==
    {[and |-> <<ByteMatch(Text("x"))>>],
     [or |-> <<ByteMatch(Text("y"))>>],
     [not |-> [sqli_match |-> [field |-> PyStr(W_BODY)]]],
     [or_methods |-> PyList(<<PyStr(<<"G", "E", "T">>)>>)],
     [or_methods |-> PyStr(<<"G", "E", "T">>)],
     [or_hosts |-> PyStr(TOKEN_allowed_hosts)],
     [byte_match |-> [field |-> PyStr(<<"I", "P">>), search_string |-> Text("x")]],
     [sqli_match |-> [field |-> PyStr(W_QUERY_STRING)]],
     [size_constraint |-> [field |-> PyStr(W_BODY), comparison_operator |-> "ABOVE",
                           size |-> PyInt(8)]],
     [label_match |-> [scope |-> "RULE", key |-> PyStr(Text("k"))]]}
SeveralKeys ==
    KeyValues \cup {a @@ b : a \in KeyValues, b \in KeyValues}

InitShapes ==
    Imported(StatementCalls(CombinatorStatements \cup SeveralKeys, {ConfigOf(<<>>)})
             \cup CallOf("validate", RuleConfigs(SeveralKeys)))
NextShapes ==
    \/ Call_build_statement
    \/ Call_validate
SpecShapes == InitShapes /\ [][NextShapes]_vars

\* the five leaf kinds on a single header, the header name absent, empty or given
HeaderLeaves ==
    Merge({[field |-> PyStr(W_SINGLE_HEADER)]},
          Opt("header_name", {<<>>, <<"H">>, <<"X", "-", "I", "d">>}))
HeaderStatements ==
    UNION {{[byte_match |-> leaf @@ [search_string |-> Text("x")]],
            [sqli_match |-> leaf],
            [xss_match |-> leaf],
            [size_constraint |-> leaf @@ [comparison_operator |-> "ABOVE", size |-> PyInt(8)]],
            [regex_match |-> leaf @@ [regex_string |-> Text("x")]]} : leaf \in HeaderLeaves}

InitHeaders ==
    Imported(StatementCalls(HeaderStatements, {ConfigOf(<<>>)})
             \cup CallOf("validate", RuleConfigs(HeaderStatements)))
NextHeaders ==
    \/ Call_build_statement
    \/ Call_validate
SpecHeaders == InitHeaders /\ [][NextHeaders]_vars

\* one custom group of two rules under every pair of priorities up to MaxPriority
MaxPriority == 3
PriorityConfigs ==
    {ConfigOf(CustomGroup(<<Rule(<<"r", "1">>, p, ByteMatch(Text("x"))),
                            Rule(<<"r", "2">>, q, ByteMatch(Text("y")))>>)) :
        p \in 1..MaxPriority, q \in 1..MaxPriority}
InitPriorities == InitWith(PriorityConfigs, {NoFlags}, {<<>>})
SpecPriorities == InitPriorities /\ [][NextOnce]_vars

\* one rule under every declared action, with and without a custom-response
\* descriptor and a label
RuleActions == {"allow", "count", "block", "none", "captcha"}
Descriptors ==
    {<<>>, [response_code |-> 429, custom_response_body_key |-> Text("k")],
     [custom_response_body_key |-> Text("k")]}
ActionRules ==
    Merge(Merge({[name |-> Text("r"), priority |-> 1, statement |-> ByteMatch(Text("x"))]},
                Opt("action", RuleActions)),
          Merge(Opt("custom_response", Descriptors), Opt("label", {<<>>, Text("l")})))
RuleCalls ==
    CallOf("_build_single_rule",
           [self : {TerraformBuilder_init(ConfigOf(<<>>)).out}, rule : ActionRules,
            namespace : {Text("n")}])

InitRules == Imported(RuleCalls)
NextRules == Call_build_single_rule
SpecRules == InitRules /\ [][NextRules]_vars

\* policies of a custom, an external and a module group, under display names, every
\* shape of ARN token and inclusion, with and without configured policy names
ReferenceGroups ==
    {<<[key |-> KeyAt(1), group |-> g1], [key |-> KeyAt(2), group |-> g2],
       [key |-> <<"k", "-", "3">>, group |-> g3]>> :
        g1 \in Merge({[type |-> "custom", rules |-> OneRule]},
                     Merge(Opt("name", {<<"M", "y", " ", "G", "!">>}),
                           Opt("include_in_count", {FALSE}))),
        g2 \in Merge({[type |-> "external"]}, ExternalArns),
        g3 \in Merge({[type |-> "module", module_source |-> "./modules/catch"]},
                     Merge(Opt("name", {TOKEN_project \o <<"-", "w", "a", "f">>}),
                           Opt("output_arn", {"rule_group_arn"})))}
PolicyNames ==
    Merge(Opt("fms_policy_count_resource_name", {TOKEN_project \o <<"-", "c">>}),
          Opt("fms_policy_block_resource_name", {<<"b", " ", "1">>}))
ReferenceConfigs ==
    {[ConfigOf(gs) EXCEPT !.settings = Settings @@ names] :
        gs \in ReferenceGroups, names \in PolicyNames}
InitReferences == InitWith(ReferenceConfigs, {NoFlags}, {<<>>})
SpecReferences == InitReferences /\ [][NextOnce]_vars

\* the ids uuid4 generates, told apart by one digit, and ids a client chooses
Uuid(digit) == [i \in 1..UUID_LENGTH |-> IF i \in {9, 14, 19, 24} THEN "-" ELSE digit]
ItemIds ==
    {<<"1", "2", "3">>, <<"a", "-", "1">>, Uuid("1"), [i \in 1..UUID_LENGTH |-> "f"]}
CollectionNames == {<<"i", "t", "e", "m", "s">>, <<"f", "o", "o", "d">>}

\* the paths of up to MaxParts segments, each a collection name or an id
MaxParts == 3
Paths ==
    {<<"/">> \o Join(parts, "/") :
        parts \in UNION {[1..n -> ItemIds \cup CollectionNames] : n \in 0..MaxParts}}
InitPaths == Imported(CallOf("parse_path", Paths))
NextPaths == Call_parse_path
SpecPaths == InitPaths /\ [][NextPaths]_vars

\* the function deployed on a bucket, the requests of the clients in flight
Deployed(buckets, sessions) ==
    /\ bucket \in buckets
    /\ inflight \in sessions
    /\ pc = "deployed"
    /\ call = <<>>
    /\ returned = <<>>
    /\ config = <<>>
    /\ opts = NoFlags
    /\ files = <<>>
    /\ validator = [errors |-> <<>>, warnings |-> <<>>]
    /\ is_valid = FALSE
    /\ builder = <<>>
    /\ exit_code = -1
    /\ started = {}
    /\ run = 1
    /\ config0 = config
    /\ first_files = files

\* the bucket at first: two items of the collection a, one of the collection a/b
C_a == <<"a">>
C_a_b == <<"a", "/", "b">>
Item(item_id) ==
    [id |-> item_id, name |-> "n0", qty |-> "q0", created_at |-> "T0", updated_at |-> "T0"]
StoredAtFirst ==
    LET ids == {<<C_a, <<"x", "-", "1">>>>, <<C_a, <<"x", "-", "2">>>>,
                <<C_a_b, <<"y", "-", "1">>>>}
    IN  [key \in {get_s3_key(at[1], at[2]) : at \in ids} |->
            Item((CHOOSE at \in ids : get_s3_key(at[1], at[2]) = key)[2])]

\* a request as the client sends it, `after` the requests whose responses it waited for
Request(event, after) ==
    [event |-> event, after |-> after, pc |-> "received", pending |-> <<>>, items |-> <<>>,
     existing_item |-> <<>>, response |-> <<>>]
Event(method, uri, querystring, body) ==
    [method |-> method, uri |-> uri, querystring |-> querystring, body |-> body]
Dict(value) == [kind |-> "dict", value |-> value]
Absent == [kind |-> "none", value |-> <<>>]
Q_all == <<"r", "e", "q", "u", "e", "s", "t", "=">> \o W_all
Q_bulk == <<"r", "e", "q", "u", "e", "s", "t", "=">> \o W_bulk
Q_replace == <<"x", "=", "1", "&", "r", "e", "q", "u", "e", "s", "t", "=">> \o W_replace
P_a == <<"/", "a">>
P_a_b == <<"/", "a", "/", "b">>
P_x1 == <<"/", "a", "/", "x", "-", "1">>
P_x1_quoted == <<"/", "a", "/", "x", "%", "2", "D", "1">>
P_x9 == <<"/", "a", "/", "x", "-", "9">>

\* the merging updates of the item x-1, each of one field
Updates ==
    {Event("PATCH", P_x1, <<>>, Dict([name |-> "n1"])),
     Event("PATCH", P_x1_quoted, <<>>, Dict([qty |-> "q1"])),
     Event("PUT", P_x1, <<>>, Dict([qty |-> "q2"])),
     Event("PUT", P_x1, Q_bulk, Dict([name |-> "n2"]))}

\* the requests without one: every branch of the handler
Events ==
    Updates
    \cup {Event("GET", path, <<>>, Absent) : path \in {P_a, P_a_b, P_x1, P_x9, <<"/">>}}
    \cup {Event("OPTIONS", P_a, <<>>, Absent), Event("HEAD", P_a, <<>>, Absent),
          Event("POST", P_a, <<>>, Absent),
          Event("POST", P_a_b, <<>>, Dict([name |-> "n3"])),
          Event("POST", P_a, <<>>, [kind |-> "list", value |-> <<[name |-> "n4"]>>]),
          Event("POST", P_a, Q_bulk,
                [kind |-> "list", value |-> <<[name |-> "n4"], [name |-> "n5"]>>]),
          Event("PUT", P_x1, Q_replace, Dict([name |-> "n6"])),
          Event("PATCH", P_a, <<>>, Dict([name |-> "n1"])),
          Event("PATCH", P_x9, <<>>, [kind |-> "invalid", value |-> <<>>]),
          Event("DELETE", P_a, Q_all, Absent),
          Event("DELETE", P_a_b, Q_all, Absent),
          Event("DELETE", P_x1, <<>>, Absent),
          Event("DELETE", P_x9, <<>>, Absent),
          Event("DELETE", P_a, <<>>, Absent)}

\* two clients at once, or one client that sends its second request when the
\* first is answered
Sessions(first, second) ==
    {<<Request(e1, {}), Request(e2, after)>> :
        e1 \in first, e2 \in second, after \in {{}, {1}}}

InitHandler == Deployed({StoredAtFirst}, Sessions(Events, Events))
SpecHandler == InitHandler /\ [][NextHandler]_vars

(***************************************************************************)
(* Vocabulary of the properties.                                           *)
(***************************************************************************)
Modes == {"count", "block"}

\* validate has returned in this run
ValidateReturned == pc \notin {"load", "load_error", "validate"}

\* main returned normally
Finished == pc = "exit" /\ exit_code = 0

\* this run has written waf_rule_groups.tf / fms_policy.tf
RuleGroupsWritten ==
    "terraform" \in started /\ pc \in {"fms_policy_tf", "outputs_tf", "tests", "summary", "exit"}
PolicyWritten ==
    "terraform" \in started /\ pc \in {"outputs_tf", "tests", "summary", "exit"}

\* the member list and the dependency list of a variant, as the builder builds them
Entries(mode) == PreProcessEntries(builder, mode).out
Depends(mode) == DependsList(builder, mode)

\* the rule group declared under a key
GroupOf(key) ==
    builder.rule_groups[CHOOSE i \in DOMAIN builder.rule_groups :
                           builder.rule_groups[i].key = key].group
Keys == {builder.rule_groups[i].key : i \in DOMAIN builder.rule_groups}

HasEntry(key, mode) == \E i \in DOMAIN Entries(mode) : Entries(mode)[i].group = key
EntryFor(key, mode) ==
    Entries(mode)[CHOOSE i \in DOMAIN Entries(mode) : Entries(mode)[i].group = key]

InCount(group) == Get(group, "include_in_count", TRUE) # FALSE

(***************************************************************************)
(* C1                                                                      *)
(***************************************************************************)
\* C1: a generator is started only after validate returned with an empty errors
\* list; validate returns ok exactly when errors is empty; with an error the run ends
\* with exit code 1, nothing generated and the output tree untouched; with no error
\* the run is not ended by validation, whatever the warnings.
GenerationOnlyAfterCleanValidation ==
    /\ (started # {} \/ builder # <<>>) => ValidateReturned /\ is_valid /\ validator.errors = <<>>
    /\ ValidateReturned => (is_valid <=> validator.errors = <<>>)
    /\ (ValidateReturned /\ validator.errors # <<>>) =>
          /\ pc = "exit" /\ exit_code = 1
          /\ started = {} /\ builder = <<>> /\ files = first_files
    /\ (ValidateReturned /\ validator.errors = <<>> /\ pc = "exit") => exit_code = 0
    /\ (ValidateReturned /\ validator.errors = <<>> /\ ~opts.validate_only /\ ~opts.tests_only) =>
          "terraform" \in started \/ pc = "construct"

\* generation ran to its end although the validator had warnings
GeneratedDespiteWarnings ==
    /\ Finished /\ run = 1
    /\ validator.warnings # <<>> /\ validator.errors = <<>>
    /\ started = {"terraform", "tests"}
    /\ files # first_files

(***************************************************************************)
(* C2                                                                      *)
(***************************************************************************)
\* C2: on a configuration validate accepted, constructing the builder and running
\* generate never raises.
ValidatedConfigNeverRaises == is_valid => pc # "crashed"

(***************************************************************************)
(* C3                                                                      *)
(***************************************************************************)
\* C3: every rule group of a validated config has a member entry in the block
\* variant, and has one in the count variant exactly when include_in_count is not
\* false.
MembershipByInclusionOnly ==
    PolicyWritten =>
        \A key \in Keys :
            /\ HasEntry(key, "block")
            /\ HasEntry(key, "count") <=> InCount(GroupOf(key))

(***************************************************************************)
(* C4                                                                      *)
(***************************************************************************)
\* a group with no variant-specific ARN token and no per-rule override list
SameInBothVariants(group) ==
    DOMAIN group \cap {"arn_variable_count", "arn_variable_block",
                       "rule_action_overrides_count", "rule_action_overrides_block"} = {}

\* a member tuple and an emitted entry with the override-action descriptor left out
SansOverrideAction(tuple) == [tuple EXCEPT !.entry.overrideAction = "NONE"]
SansTypeLine(text) == SelectSeq(text, LAMBDA line : line.key # "type =")

\* C4: of a group with an entry in both variants, the count entry carries
\* override_action_count and the block entry override_action_block, NONE when absent;
\* when there is no variant-specific ARN token and no override list, the two entries
\* and their emitted texts differ in the override-action descriptor only.
OverrideActionPerVariant ==
    PolicyWritten =>
        \A key \in Keys :
            (HasEntry(key, "count") /\ HasEntry(key, "block")) =>
                /\ EntryFor(key, "count").entry.overrideAction
                      = Get(GroupOf(key), "override_action_count", "NONE")
                /\ EntryFor(key, "block").entry.overrideAction
                      = Get(GroupOf(key), "override_action_block", "NONE")
                /\ SameInBothVariants(GroupOf(key)) =>
                      /\ SansOverrideAction(EntryFor(key, "count"))
                            = SansOverrideAction(EntryFor(key, "block"))
                      /\ SansTypeLine(_format_rule_group_entry(EntryFor(key, "count").entry))
                            = SansTypeLine(_format_rule_group_entry(EntryFor(key, "block").entry))

\* a group with override_action_block COUNT and override_action_count NONE is emitted
\* in both variants, the entries differing
OverrideActionsDiffer ==
    /\ PolicyWritten
    /\ \E key \in Keys :
          /\ SameInBothVariants(GroupOf(key))
          /\ Get(GroupOf(key), "override_action_block", "") = "COUNT"
          /\ Get(GroupOf(key), "override_action_count", "") = "NONE"
          /\ HasEntry(key, "count") /\ HasEntry(key, "block")
          /\ EntryFor(key, "count").entry.overrideAction = "NONE"
          /\ EntryFor(key, "block").entry.overrideAction = "COUNT"

(***************************************************************************)
(* C5                                                                      *)
(***************************************************************************)
\* the priorities of the rule blocks of an emitted rule group, in order of emission
EmittedPriorities(rules_text) ==
    Map(LAMBDA line : line.val,
        SelectSeq(rules_text, LAMBDA line : line.ind = 4 /\ line.key = "priority ="))

RECURSIVE InsertByPriority(_, _)
InsertByPriority(sorted, rule) ==
    IF sorted = <<>> THEN <<rule>>
    ELSE IF Head(sorted).priority <= rule.priority
         THEN <<Head(sorted)>> \o InsertByPriority(Tail(sorted), rule)
         ELSE <<rule>> \o sorted

\* the declared priorities in ascending order, as the text shows them
AscendingPriorities(rules) ==
    Map(LAMBDA rule : IntToStr(rule.priority), FoldLeft(InsertByPriority, <<>>, rules))

CustomGroups ==
    SelectSeq(builder.rule_groups, LAMBDA entry : Get(entry.group, "type", "") = "custom")

\* C5: in waf_rule_groups.tf the rule blocks of every custom group appear in
\* ascending order of the declared priorities.
RulesEmittedByPriority ==
    RuleGroupsWritten =>
        \A k \in DOMAIN CustomGroups :
            EmittedPriorities(files[PathOf(builder, "waf_rule_groups.tf")][k + 1].rules)
                = AscendingPriorities(CustomGroups[k].group.rules)

(***************************************************************************)
(* C6                                                                      *)
(***************************************************************************)
\* the order a member entry's group declares (999 when it declares none)
OrderOf(tuple) == Get(GroupOf(tuple.group), "order", DEFAULT_ORDER)

\* C6: in each variant, of two member entries the one whose group has the smaller
\* order comes first.
MembersAscendingByOrder ==
    PolicyWritten =>
        \A mode \in Modes :
            \A i, j \in DOMAIN Entries(mode) :
                OrderOf(Entries(mode)[i]) < OrderOf(Entries(mode)[j]) => i < j

\* two groups declared in descending order are both members of a variant, and their
\* entries appear in the opposite order of their declaration
MembersReordered ==
    /\ PolicyWritten
    /\ \E mode \in Modes :
          \E a, b \in DOMAIN builder.rule_groups :
              /\ a < b
              /\ Has(builder.rule_groups[a].group, "order")
              /\ Has(builder.rule_groups[b].group, "order")
              /\ builder.rule_groups[a].group.order > builder.rule_groups[b].group.order
              /\ \E i, j \in DOMAIN Entries(mode) :
                    /\ i < j
                    /\ Entries(mode)[i].group = builder.rule_groups[b].key
                    /\ Entries(mode)[j].group = builder.rule_groups[a].key

(***************************************************************************)
(* C7                                                                      *)
(***************************************************************************)
\* the per-rule override list a group declares for a variant, <<>> when none
DeclaredOverrides(group, mode) ==
    Get(group, IF mode = "count" THEN "rule_action_overrides_count"
               ELSE "rule_action_overrides_block", <<>>)

\* C7: a member entry carries the per-rule override list its group declares for the
\* entry's variant, element by element in configured order, whatever the kind of the
\* group; it carries no list when the group declares none for that variant.
OverrideListCarried ==
    PolicyWritten =>
        \A mode \in Modes :
            \A i \in DOMAIN Entries(mode) :
                LET entry == Entries(mode)[i].entry
                    declared == DeclaredOverrides(GroupOf(Entries(mode)[i].group), mode)
                IN  IF declared # <<>>
                    THEN /\ Has(entry, "ruleActionOverrides")
                         /\ entry.ruleActionOverrides
                               = [k \in DOMAIN declared |->
                                      [name |-> declared[k].name,
                                       actionToUse |-> declared[k].action]]
                    ELSE ~Has(entry, "ruleActionOverrides")

(***************************************************************************)
(* C8                                                                      *)
(***************************************************************************)
\* the groups a list of member tuples or of dependency references names
GroupsNamed(list) == {list[i].group : i \in DOMAIN list}

\* C8: the depends_on list of a variant names exactly the custom and module groups
\* with a member entry in that variant, each once, by its resource address.
DependsOnMatchesMembers ==
    PolicyWritten =>
        \A mode \in Modes :
            /\ GroupsNamed(Depends(mode))
                  = {key \in GroupsNamed(Entries(mode)) :
                        GroupOf(key).type \in {"custom", "module"}}
            /\ Cardinality(GroupsNamed(Depends(mode))) = Len(Depends(mode))
            /\ \A i \in DOMAIN Depends(mode) :
                  /\ GroupOf(Depends(mode)[i].group).type \in {"custom", "module"}
                  /\ ~ExcludedFrom(GroupOf(Depends(mode)[i].group), mode)
                  /\ Depends(mode)[i].ref
                        = (IF GroupOf(Depends(mode)[i].group).type = "custom"
                           THEN <<"aws_wafv2_rule_group", ".">> ELSE <<"module", ".">>)
                          \o _get_resource_name(builder, Depends(mode)[i].group,
                                                GroupOf(Depends(mode)[i].group))

\* a custom or module group left out of the count variant is named by the block
\* variant's depends_on only, next to a group of another kind that is a member
DependsOnDiffersByVariant ==
    /\ PolicyWritten
    /\ GroupsNamed(Depends("count")) # GroupsNamed(Depends("block"))
    /\ \E key \in GroupsNamed(Depends("block")) :
          ~InCount(GroupOf(key)) /\ key \notin GroupsNamed(Depends("count"))
    /\ \E key \in GroupsNamed(Entries("block")) : GroupOf(key).type = "external"

(***************************************************************************)
(* C9                                                                      *)
(***************************************************************************)
\* the files of the output tree that TerraformBuilder.generate is responsible for
TerraformTree(tree) == [path \in {q \in DOMAIN tree : q.file # "tests"} |-> tree[path]]

DuplicateOrders ==
    LET rule_groups == Get(config, "rule_groups", <<>>)
    IN  {<<a, b>> \in (DOMAIN rule_groups) \X (DOMAIN rule_groups) :
            /\ a < b
            /\ Has(rule_groups[a].group, "order") /\ Has(rule_groups[b].group, "order")
            /\ rule_groups[a].group.order = rule_groups[b].group.order}

IsDuplicateOrderError(e) == e.fmt = "Duplicate order {} in rule_groups"

\* what a message names: the values interpolated into it
Names(e, text) == \E k \in DOMAIN e.args : e.args[k] = text

\* C10: when two rule groups declare the same order, validate returns false and an
\* error names both groups and the shared value; when all orders are distinct there
\* is no duplicate-order error.
DuplicateOrderNamesBothGroups ==
    ValidateReturned =>
        LET rule_groups == Get(config, "rule_groups", <<>>)
            errors == Range(validator.errors)
        IN  /\ \A pair \in DuplicateOrders :
                  /\ ~is_valid
                  /\ \E e \in errors :
                        /\ IsDuplicateOrderError(e)
                        /\ Names(e, IntToStr(rule_groups[pair[1]].group.order))
                        /\ Names(e, rule_groups[pair[1]].key)
                        /\ Names(e, rule_groups[pair[2]].key)
            /\ DuplicateOrders = {} => \A e \in errors : ~IsDuplicateOrderError(e)

(***************************************************************************)
(* C11                                                                     *)
(***************************************************************************)
\* this run has written outputs.tf
OutputsWritten == "terraform" \in started /\ pc \in {"tests", "summary", "exit"}

\* the identifier of the group under a key: its display name, or the key when it has
\* none, with the project token substituted, every character outside [A-Za-z0-9_]
\* replaced by "_"
DerivedIdentifier(key) ==
    LET shown == Replace(Get(GroupOf(key), "name", key), TOKEN_project, builder.project)
    IN  [i \in DOMAIN shown |->
           IF shown[i] \in Range(UpperChars) \cup Range(LowerChars) \cup Range(DigitChars)
                            \cup {"_"}
           THEN shown[i] ELSE "_"]

\* the blocks of a kind in a written file
BlocksOf(file, kind) ==
    SelectSeq(files[PathOf(builder, file)], LAMBDA b : b.block = kind)

\* the keys of the groups of a type, in the order of declaration
KeysOfType(type) ==
    LET of == SelectSeq(builder.rule_groups, LAMBDA item : Get(item.group, "type", "") = type)
    IN  [i \in DOMAIN of |-> of[i].key]

\* C11: when the tree is written, the k-th custom group's resource block and the k-th
\* module group's module block are named by the group's derived identifier, every
\* member entry and every depends_on reference of both variants names the group by
\* that identifier, and so does the output declaration of a module group.
OneIdentifierPerGroup ==
    OutputsWritten =>
        /\ Len(BlocksOf("waf_rule_groups.tf", "aws_wafv2_rule_group")) = Len(KeysOfType("custom"))
        /\ \A k \in DOMAIN KeysOfType("custom") :
              BlocksOf("waf_rule_groups.tf", "aws_wafv2_rule_group")[k].name
                 = DerivedIdentifier(KeysOfType("custom")[k])
        /\ Len(BlocksOf("modules.tf", "module")) = Len(KeysOfType("module"))
        /\ \A k \in DOMAIN KeysOfType("module") :
              /\ BlocksOf("modules.tf", "module")[k].name
                    = DerivedIdentifier(KeysOfType("module")[k])
              /\ \E i \in DOMAIN files[PathOf(builder, "outputs.tf")] :
                    LET out == files[PathOf(builder, "outputs.tf")][i]
                    IN  /\ out.name = DerivedIdentifier(KeysOfType("module")[k]) \o <<"_arn">>
                        /\ out.value
                              = <<"module", ".">> \o DerivedIdentifier(KeysOfType("module")[k])
                                \o <<".", Get(GroupOf(KeysOfType("module")[k]),
                                              "output_arn", "arn")>>
        /\ \A mode \in Modes :
              /\ \A i \in DOMAIN Entries(mode) :
                    LET member == Entries(mode)[i]
                    IN  /\ member.ref_type = "resource" =>
                              /\ member.ref_name
                                    = <<"aws_wafv2_rule_group", ".">>
                                      \o DerivedIdentifier(member.group) \o <<".", "arn">>
                              /\ member.entry.ruleGroupArn
                                    = <<"${", "aws_wafv2_rule_group", ".">>
                                      \o DerivedIdentifier(member.group) \o <<".", "arn", "}">>
                        /\ member.ref_type = "module" =>
                              /\ member.ref_name
                                    = <<"module", ".">> \o DerivedIdentifier(member.group)
                                      \o <<".", Get(GroupOf(member.group), "output_arn", "arn")>>
                              /\ member.entry.ruleGroupArn
                                    = <<"${", "module", ".">> \o DerivedIdentifier(member.group)
                                      \o <<".", Get(GroupOf(member.group), "output_arn", "arn"),
                                           "}">>
              /\ \A i \in DOMAIN Depends(mode) :
                    Depends(mode)[i].ref
                       = (IF GroupOf(Depends(mode)[i].group).type = "custom"
                          THEN <<"aws_wafv2_rule_group", ".">> ELSE <<"module", ".">>)
                         \o DerivedIdentifier(Depends(mode)[i].group)

\* a tree is written for a custom group whose display name carries the project token
\* and a character to replace, and a module group named by a key with such a
\* character, both members of both variants
NamedGroupsWritten ==
    /\ OutputsWritten
    /\ \E key \in Keys :
          /\ GroupOf(key).type = "custom"
          /\ Has(GroupOf(key), "name")
          /\ DerivedIdentifier(key) = <<"p", "a", "y", "_", "w", "a", "f">>
          /\ \A mode \in Modes : HasEntry(key, mode) /\ key \in GroupsNamed(Depends(mode))
    /\ \E key \in Keys :
          /\ GroupOf(key).type = "module"
          /\ ~Has(GroupOf(key), "name")
          /\ DerivedIdentifier(key) = <<"k", "_", "2">>
          /\ \A mode \in Modes : HasEntry(key, mode) /\ key \in GroupsNamed(Depends(mode))

(***************************************************************************)
(* C12                                                                     *)
(***************************************************************************)
\* C12: sanitize_resource_name returns a name of the same length that keeps each
\* character of [A-Za-z0-9_] where it was and has "_" in place of any other, so the
\* result is made of identifier characters only and sanitizing it again changes
\* nothing.
SanitizeKeepsShape ==
    (call.fn = "sanitize_resource_name" /\ returned.done) =>
        /\ Len(returned.value) = Len(call.args)
        /\ \A i \in 1..Len(call.args) :
              returned.value[i]
                 = IF call.args[i] \in Range(UpperChars) \cup Range(LowerChars)
                                        \cup Range(DigitChars) \cup {"_"}
                   THEN call.args[i] ELSE "_"
        /\ \A i \in 1..Len(returned.value) :
              returned.value[i] \in Range(UpperChars) \cup Range(LowerChars)
                                     \cup Range(DigitChars) \cup {"_"}
        /\ sanitize_resource_name(returned.value) = returned.value

\* "My Group!!" was sanitized to "My_Group__"
SanitizedMyGroup ==
    /\ call.fn = "sanitize_resource_name" /\ returned.done
    /\ call.args = <<"M", "y", " ", "G", "r", "o", "u", "p", "!", "!">>
    /\ returned.value = <<"M", "y", "_", "G", "r", "o", "u", "p", "_", "_">>

(***************************************************************************)
(* C13                                                                     *)
(***************************************************************************)
\* the text build_statement returned
Compiled == returned.value.out

\* the k-th member of a compiled synthetic or_statement: 13 lines behind the head
MemberLines(k) == SubSeq(Compiled, 13 * k - 11, 13 * k + 1)

\* the lines of one member: a statement holding one byte match of a search string
\* under a constraint on a field, lower-casing the input at priority 0
ExpectedMember(search_string, constraint, field, indent) ==
    <<Line(indent + 2, "statement {", <<>>),
      Line(indent + 4, "byte_match_statement {", <<>>),
      Line(indent + 6, "search_string         =", search_string),
      Line(indent + 6, "positional_constraint =", <<constraint>>),
      Line(indent + 6, "field_to_match {", <<>>)>>
    \o field
    \o <<Line(indent + 6, "}", <<>>),
          Line(indent + 6, "text_transformation {", <<>>),
          Line(indent + 8, "priority =", <<"0">>),
          Line(indent + 8, "type     =", <<"LOWERCASE">>),
          Line(indent + 6, "}", <<>>),
          Line(indent + 4, "}", <<>>),
          Line(indent + 2, "}", <<>>)>>

\* C13: or_methods over the verbs v1..vn compiles without an exception to one
\* or_statement of exactly n members, the k-th a byte match on the method field with
\* constraint EXACTLY whose search string is vk lower-cased and whose one text
\* transformation is LOWERCASE at priority 0.
OrMethodsOneMemberPerVerb ==
    (call.fn = "build_statement" /\ returned.done /\ Has(call.args.statement, "or_methods")) =>
        LET verbs == call.args.statement["or_methods"].val
            indent == call.args.indent
            n == Len(verbs)
        IN  /\ returned.value.err = NoErr
            /\ Head(Compiled) = Line(indent, "or_statement {", <<>>)
            /\ Compiled[Len(Compiled)] = Line(indent, "}", <<>>)
            /\ n > 0 => Len(Compiled) = 13 * n + 2
            /\ n = 0 => Compiled = <<Line(indent, "or_statement {", <<>>), Line(0, "", <<>>),
                                      Line(indent, "}", <<>>)>>
            /\ \A k \in 1..n :
                  MemberLines(k)
                     = ExpectedMember(Lower(verbs[k].val), "EXACTLY",
                                      <<Line(indent + 8, "method {}", <<>>)>>, indent)

\* or_methods: [GET, Post, put] compiled to the members get, post, put in that order
ThreeVerbsCompiled ==
    /\ call.fn = "build_statement" /\ returned.done
    /\ Has(call.args.statement, "or_methods")
    /\ call.args.statement["or_methods"].val
          = <<PyStr(<<"G", "E", "T">>), PyStr(<<"P", "o", "s", "t">>), PyStr(<<"p", "u", "t">>)>>
    /\ Len(Compiled) = 41
    /\ MemberLines(1)[3].val = <<"g", "e", "t">>
    /\ MemberLines(2)[3].val = <<"p", "o", "s", "t">>
    /\ MemberLines(3)[3].val = <<"p", "u", "t">>

(***************************************************************************)
(* C14                                                                     *)
(***************************************************************************)
\* the k-th member of a compiled or_hosts: 15 lines behind the head
HostMemberLines(k) == SubSeq(Compiled, 15 * k - 13, 15 * k + 1)

\* the list an or_hosts reference stands for: the config's allowed_hosts for the
\* token, the reference itself otherwise
HostsMeant(statement, cfg) ==
    IF statement["or_hosts"] = PyStr(TOKEN_allowed_hosts) THEN Get(cfg, "allowed_hosts", <<>>)
    ELSE statement["or_hosts"].val

\* C14: or_hosts compiles without an exception to one or_statement with exactly one
\* member per host of the list its reference stands for, in list order, the k-th a
\* byte match of the k-th host against the single header "host" under the host's
\* declared match type, EXACTLY when it declares none, lower-casing the input.
OrHostsOneMemberPerHost ==
    (call.fn = "build_statement" /\ returned.done /\ Has(call.args.statement, "or_hosts")) =>
        LET hosts == HostsMeant(call.args.statement, call.args.config)
            indent == call.args.indent
            n == Len(hosts)
        IN  /\ returned.value.err = NoErr
            /\ Head(Compiled) = Line(indent, "or_statement {", <<>>)
            /\ Compiled[Len(Compiled)] = Line(indent, "}", <<>>)
            /\ n > 0 => Len(Compiled) = 15 * n + 2
            /\ n = 0 => Len(Compiled) = 3 /\ Compiled[2] = Line(0, "", <<>>)
            /\ \A k \in 1..n :
                  HostMemberLines(k)
                     = ExpectedMember(hosts[k].host,
                                      IF "match" \in DOMAIN hosts[k] THEN hosts[k].match
                                      ELSE "EXACTLY",
                                      <<Line(indent + 8, "single_header {", <<>>),
                                        Line(indent + 10, "name =", <<"h", "o", "s", "t">>),
                                        Line(indent + 8, "}", <<>>)>>, indent)

\* the token compiled the global list [a.ex, b.ex STARTS_WITH] to two members with
\* the constraints EXACTLY and STARTS_WITH
TokenCompiledGlobalHosts ==
    /\ call.fn = "build_statement" /\ returned.done
    /\ Has(call.args.statement, "or_hosts")
    /\ call.args.statement["or_hosts"] = PyStr(TOKEN_allowed_hosts)
    /\ Has(call.args.config, "allowed_hosts")
    /\ Len(call.args.config["allowed_hosts"]) = 2
    /\ Len(Compiled) = 32
    /\ HostMemberLines(1)[3].val = <<"a", ".", "e", "x">>
    /\ HostMemberLines(1)[4].val = <<"EXACTLY">>
    /\ HostMemberLines(2)[3].val = <<"b", ".", "e", "x">>
    /\ HostMemberLines(2)[4].val = <<"STARTS_WITH">>

(***************************************************************************)
(* C15                                                                     *)
(***************************************************************************)
IsCidrError(e) == e.fmt = "Rule group '{}': Invalid CIDR '{}'"

\* CIDR notation of an IPv4 network: four octets of at most 255 and a prefix length
\* of at most 32
ValidCidr(ip) ==
    /\ Len(ip.octets) = 4
    /\ \A i \in 1..Len(ip.octets) : ip.octets[i] >= 0 /\ ip.octets[i] <= 255
    /\ ip.prefix >= 0 /\ ip.prefix <= 32

\* the positions <<i, j>> of the invalid addresses: the j-th address of the i-th group
InvalidAddresses(rule_groups) ==
    {at \in (DOMAIN rule_groups) \X (1..MaxAddresses + 1) :
        /\ rule_groups[at[1]].group.type = "ip_set"
        /\ at[2] \in DOMAIN rule_groups[at[1]].group.ip_addresses
        /\ ~ValidCidr(rule_groups[at[1]].group.ip_addresses[at[2]])}

AbsentSections(cfg) ==
    SelectSeq(<<"version", "metadata", "settings", "rule_groups">>,
              LAMBDA section : section \notin DOMAIN cfg)

\* C16: when a required top-level key is absent, validate returns false, the errors
\* are the missing-key errors alone, one per absent key, and there is no warning:
\* nothing a semantic check would have found in the sections present is reported.
MissingSectionsFailFast ==
    (call.fn = "validate" /\ returned.done /\ AbsentSections(call.args) # <<>>) =>
        /\ ~returned.value.ok
        /\ returned.value.warnings = <<>>
        /\ returned.value.errors
              = [k \in DOMAIN AbsentSections(call.args) |->
                    Msg("Missing required field: {}", <<<<AbsentSections(call.args)[k]>>>>)]

\* validate returned on a config without its version and settings whose metadata
\* the semantic checks would have warned about and found incomplete
FailedFastOnFaultyConfig ==
    /\ call.fn = "validate" /\ returned.done
    /\ AbsentSections(call.args) = <<"version", "settings">>
    /\ ~Has(call.args.metadata, "project")
    /\ Len(call.args.metadata.account_id) # 12
    /\ Len(returned.value.errors) = 2

(***************************************************************************)
(* C17                                                                     *)
(***************************************************************************)
\* the group is in the variant: always in block, in count unless include_in_count
\* is false
IncludedIn(group, mode) == mode = "block" \/ InCount(group)

\* C17: an external group of a config that passed validation declares arn_variable
\* or both arn_variable_count and arn_variable_block, so in every variant that
\* includes it, it resolves to a non-empty ARN variable and has a member entry.
ValidatedExternalAlwaysResolves ==
    PolicyWritten =>
        \A key \in Keys :
            GroupOf(key).type = "external" =>
                /\ \/ Has(GroupOf(key), "arn_variable")
                   \/ /\ Has(GroupOf(key), "arn_variable_count")
                      /\ Has(GroupOf(key), "arn_variable_block")
                /\ \A mode \in Modes :
                      IncludedIn(GroupOf(key), mode) =>
                          /\ ArnVar(GroupOf(key), mode) # ""
                          /\ HasEntry(key, mode)

(***************************************************************************)
(* C18                                                                     *)
(***************************************************************************)
\* C18: every external, module, ip_set and managed group has, in each variant that
\* includes it, a member entry whose reference has the form of its kind: an input
\* variable for external, a module output for module, a reference of some form for
\* ip_set and managed.
ReferencedGroupsNeverDropped ==
    PolicyWritten =>
        \A key \in Keys : \A mode \in Modes :
            (/\ GroupOf(key).type \in {"external", "module", "ip_set", "managed"}
             /\ IncludedIn(GroupOf(key), mode)) =>
                /\ HasEntry(key, mode)
                /\ GroupOf(key).type = "external" =>
                      /\ EntryFor(key, mode).ref_type = "var"
                      /\ EntryFor(key, mode).entry.ruleGroupArn
                            = <<"${", "var", ".", EntryFor(key, mode).ref_name[1], "}">>
                /\ GroupOf(key).type = "module" =>
                      /\ EntryFor(key, mode).ref_type = "module"
                      /\ SubSeq(EntryFor(key, mode).entry.ruleGroupArn, 1, 3)
                            = <<"${", "module", ".">>
                /\ GroupOf(key).type \in {"ip_set", "managed"} =>
                      EntryFor(key, mode).ref_name # <<>>

(***************************************************************************)
(* C19                                                                     *)
(***************************************************************************)
\* generate has built some artifacts and not yet all of them, or has failed
BuildingOrFailed ==
    pc \in {"main_tf", "variables_tf", "modules_tf", "rule_groups_tf", "fms_policy_tf",
            "outputs_tf", "crashed"}

\* C19: while generate has artifacts left to build, and when building one has
\* failed, the Terraform files are those the output directory held before generate
\* was called: nothing is written before every artifact is built.
NothingWrittenUntilAllBuilt ==
    BuildingOrFailed => TerraformTree(files) = TerraformTree(first_files)

(***************************************************************************)
(* C20                                                                     *)
(***************************************************************************)
\* a text with the account token replaced by the account id of the config, any
\* other token left as written
Expanded(text, cfg) == Replace(text, TOKEN_account_id, cfg.metadata.account_id)

\* what the compiled text shows behind an attribute
Shown(attribute) ==
    Compiled[CHOOSE i \in DOMAIN Compiled : Compiled[i].key = attribute].val

\* C20: in the text compiled from a leaf, the search string of a byte match, the
\* regex string of a regex match and the key of a label match are shown with every
\* ${account_id} replaced by the account id, and with no other token replaced.
AccountIdExpandedEverywhere ==
    (call.fn = "build_statement" /\ returned.done /\ returned.value.err = NoErr) =>
        LET statement == call.args.statement
            cfg == call.args.config
        IN  /\ Has(statement, "byte_match") =>
                  Shown("search_string         =")
                     = Expanded(statement["byte_match"].search_string, cfg)
            /\ Has(statement, "regex_match") =>
                  Shown("regex_string =") = Expanded(statement["regex_match"].regex_string, cfg)
            /\ Has(statement, "label_match") =>
                  Shown("key   =") = Expanded(statement["label_match"].key.val, cfg)

(***************************************************************************)
(* C21                                                                     *)
(***************************************************************************)
\* the fields with a form of their own
LoweredFields ==
    {W_BODY, W_QUERY_STRING, W_URI_PATH, W_METHOD, W_SINGLE_HEADER, W_ALL_QUERY_ARGUMENTS}

\* the block returned, between its head and its closing line
FieldForm == SubSeq(returned.value.out, 2, Len(returned.value.out) - 1)

\* C21: build_field_to_match returns without raising; BODY gets the body form with
\* the leaf's oversize handling, CONTINUE by default, QUERY_STRING, URI_PATH, METHOD,
\* SINGLE_HEADER and ALL_QUERY_ARGUMENTS get their own form, and every other field,
\* JSON_BODY, HEADERS, COOKIES and SINGLE_QUERY_ARGUMENT included, gets the bare
\* body form; the fields the validator accepts are a strict superset of the lowered.
FieldLoweringTable ==
    /\ LoweredFields \subseteq VALID_FIELDS /\ LoweredFields # VALID_FIELDS
    /\ (call.fn = "build_field_to_match" /\ returned.done) =>
          LET field == Upper(call.args.field.val)
              leaf == call.args.config
          IN  /\ returned.value.err = NoErr
              /\ Head(returned.value.out) = Line(0, "field_to_match {", <<>>)
              /\ returned.value.out[Len(returned.value.out)] = Line(8, "}", <<>>)
              /\ field = W_BODY =>
                    FieldForm
                       = <<Line(10, "body {", <<>>),
                           Line(12, "oversize_handling =",
                                <<IF "oversize_handling" \in DOMAIN leaf
                                  THEN leaf.oversize_handling ELSE "CONTINUE">>),
                           Line(10, "}", <<>>)>>
              /\ field = W_QUERY_STRING => FieldForm = <<Line(10, "query_string {}", <<>>)>>
              /\ field = W_URI_PATH => FieldForm = <<Line(10, "uri_path {}", <<>>)>>
              /\ field = W_METHOD => FieldForm = <<Line(10, "method {}", <<>>)>>
              /\ field = W_SINGLE_HEADER =>
                    /\ Len(FieldForm) = 3
                    /\ FieldForm[1] = Line(10, "single_header {", <<>>)
                    /\ FieldForm[2].key = "name ="
              /\ field = W_ALL_QUERY_ARGUMENTS =>
                    FieldForm = <<Line(10, "all_query_arguments {}", <<>>)>>
              /\ field \notin LoweredFields => FieldForm = <<Line(10, "body {}", <<>>)>>

\* JSON_BODY, which the validator accepts, was lowered to the bare body form on a
\* leaf that declares an oversize handling
JsonBodyFellBack ==
    /\ call.fn = "build_field_to_match" /\ returned.done
    /\ call.args.field = PyStr(W_JSON_BODY)
    /\ W_JSON_BODY \in VALID_FIELDS
    /\ Has(call.args.config, "oversize_handling")
    /\ returned.value
          = Ok(<<Line(0, "field_to_match {", <<>>), Line(10, "body {}", <<>>),
                 Line(8, "}", <<>>)>>)

(***************************************************************************)
(* C22                                                                     *)
(***************************************************************************)
RecognizedKeys ==
    {"and", "or", "not", "or_methods", "or_hosts", "byte_match", "sqli_match", "xss_match",
     "size_constraint", "regex_match", "label_match"}

Unrecognized(statement) == DOMAIN statement \cap RecognizedKeys = {}

\* how many nodes of a statement tree have none of the recognized keys
RECURSIVE UnrecognizedIn(_)
UnrecognizedIn(statement) ==
    IF "and" \in DOMAIN statement
    THEN FoldLeft(LAMBDA n, sub : n + UnrecognizedIn(sub), 0, statement["and"])
    ELSE IF "or" \in DOMAIN statement
    THEN FoldLeft(LAMBDA n, sub : n + UnrecognizedIn(sub), 0, statement["or"])
    ELSE IF "not" \in DOMAIN statement THEN UnrecognizedIn(statement["not"])
    ELSE IF Unrecognized(statement) THEN 1 ELSE 0

\* the statement of the one rule of the config validate was called on
StatementValidated == call.args.rule_groups[1].group.rules[1].statement

\* C22: a node with none of the recognized keys compiles without raising to the
\* empty string, on its own and as the whole body of its wrapper under combinators
\* at every depth, one empty body per such node; validate reports no error for a
\* config whose rule holds such nodes.
UnrecognizedNodeCompilesEmpty ==
    /\ (call.fn = "build_statement" /\ returned.done) =>
          /\ returned.value.err = NoErr
          /\ Unrecognized(call.args.statement) => Compiled = <<Line(0, "", <<>>)>>
          /\ Cardinality({i \in DOMAIN Compiled : Compiled[i] = Line(0, "", <<>>)})
                = UnrecognizedIn(call.args.statement)
          /\ ~Unrecognized(call.args.statement) =>
                \A i \in DOMAIN Compiled :
                    Compiled[i] = Line(0, "", <<>>) =>
                        /\ Compiled[i - 1].key = "statement {"
                        /\ Compiled[i + 1].key = "}"
                        /\ Compiled[i + 1].ind = Compiled[i - 1].ind
    /\ (call.fn = "validate" /\ returned.done) =>
          /\ returned.value.ok
          /\ returned.value.errors = <<>>

\* a node without a recognized key was compiled two combinators deep, to the empty
\* body of a wrapper
NestedUnrecognizedCompiled ==
    /\ call.fn = "build_statement" /\ returned.done
    /\ call.args.statement = [not |-> [or |-> <<ByteMatch(Text("x")),
                                               [geo_match |-> PyStr(<<"G", "B">>)]>>]]
    /\ UnrecognizedIn(call.args.statement) = 1
    /\ \E i \in DOMAIN Compiled :
          /\ Compiled[i] = Line(0, "", <<>>)
          /\ Compiled[i - 1] = Line(call.args.indent + 4, "statement {", <<>>)

(***************************************************************************)
(* C23                                                                     *)
(***************************************************************************)
\* the recognized keys in the order of precedence: and, or, not, the shorthands,
\* the leaves
ShapeOrder ==
    <<"and", "or", "not", "or_methods", "or_hosts", "byte_match", "sqli_match", "xss_match",
      "size_constraint", "regex_match", "label_match">>

\* the node reduced to the first of its keys in the order of precedence
PickedShape(statement) ==
    LET first == CHOOSE i \in DOMAIN ShapeOrder :
                    /\ ShapeOrder[i] \in DOMAIN statement
                    /\ \A j \in 1..(i - 1) : ShapeOrder[j] \notin DOMAIN statement
    IN  [key \in {ShapeOrder[first]} |-> statement[key]]

\* the children of a combinator node and the head of its container
ChildrenOf(statement) ==
    IF "and" \in DOMAIN statement THEN statement["and"]
    ELSE IF "or" \in DOMAIN statement THEN statement["or"]
    ELSE <<statement["not"]>>
HeadOf(statement) ==
    IF "and" \in DOMAIN statement THEN "and_statement {"
    ELSE IF "or" \in DOMAIN statement THEN "or_statement {"
    ELSE "not_statement {"

\* the single-child wrappers of the children, each child compiled one level deeper
WrappersOf(subs, cfg, indent) ==
    FoldLeft(LAMBDA text, sub :
                 text \o <<Line(indent + 2, "statement {", <<>>)>>
                      \o build_statement(sub, cfg, indent + 2).out
                      \o <<Line(indent + 2, "}", <<>>)>>,
             <<>>, subs)

\* C23: an and, or, not node compiles to one container of its kind holding one
\* single-child wrapper per child, in child order, around the child compiled one
\* indent level deeper; a node with several recognized keys is compiled, and is
\* validated, as the node with the first of its keys alone in the order and, or,
\* not, shorthands, leaves.
CombinatorsWrapChildrenInOrder ==
    /\ (/\ call.fn = "build_statement" /\ returned.done
        /\ DOMAIN call.args.statement \cap {"and", "or", "not"} # {}) =>
          LET subs == ChildrenOf(call.args.statement)
              indent == call.args.indent
          IN  /\ returned.value.err = NoErr
              /\ Compiled
                    = <<Line(indent, HeadOf(call.args.statement), <<>>)>>
                      \o (IF subs = <<>> THEN <<Line(0, "", <<>>)>>
                          ELSE WrappersOf(subs, call.args.config, indent))
                      \o <<Line(indent, "}", <<>>)>>
    /\ (call.fn = "build_statement" /\ returned.done) =>
          returned.value
             = build_statement(PickedShape(call.args.statement), call.args.config,
                               call.args.indent)
    /\ (call.fn = "validate" /\ returned.done) =>
          returned.value
             = validate(ConfigOf(CustomGroup(
                   <<Rule(Text("r"), 1, PickedShape(StatementValidated))>>)))

(***************************************************************************)
(* C24                                                                     *)
(***************************************************************************)
\* the leaf of a statement of one of the five leaf kinds
LeafOf(statement) == statement[CHOOSE key \in DOMAIN statement : TRUE]

\* a leaf on SINGLE_HEADER that names no header
NamesNoHeader(leaf) ==
    /\ FieldOf(leaf) = PyStr(W_SINGLE_HEADER)
    /\ Get(leaf, "header_name", <<>>) = <<>>

\* the names given to single_header fields in the text returned
HeaderNamesCompiled ==
    {Compiled[i].val : i \in {j \in DOMAIN Compiled : Compiled[j].key = "name ="}}

\* C24: a leaf of any of the five kinds on SINGLE_HEADER without a header name fails
\* validation, and the text compiled from a statement that validates names every
\* single_header field with a non-empty lower-case name.
SingleHeaderAlwaysNamed ==
    /\ (/\ call.fn = "validate" /\ returned.done
        /\ NamesNoHeader(LeafOf(StatementValidated))) =>
          ~returned.value.ok
    /\ (/\ call.fn = "build_statement" /\ returned.done
        /\ validate(ConfigOf(CustomGroup(<<Rule(Text("r"), 1, call.args.statement)>>))).ok) =>
          /\ HeaderNamesCompiled # {}
          /\ \A name \in HeaderNamesCompiled : name # <<>> /\ name = Lower(name)

(***************************************************************************)
(* C25                                                                     *)
(***************************************************************************)
\* a custom group of the config has two rules of one priority
TiedPriorities(cfg) ==
    \E i \in DOMAIN cfg.rule_groups :
        LET group == cfg.rule_groups[i].group
            rules == Get(group, "rules", <<>>)
        IN  /\ Get(group, "type", "") = "custom"
            /\ \E m, n \in DOMAIN rules :
                  m # n /\ Get(rules[m], "priority", 0) = Get(rules[n], "priority", 0)

\* C25: a config with two rules of one priority in a custom group fails validation,
\* and the builder that assembles the rule groups holds no such group.
TiedPrioritiesRejected ==
    /\ (ValidateReturned /\ TiedPriorities(config)) => ~is_valid
    /\ pc = "rule_groups_tf" => ~TiedPriorities(builder.config)

(***************************************************************************)
(* C26                                                                     *)
(***************************************************************************)
\* the lines of the rule returned that stand at an indent with one of the keys
RuleLines(ind, keys) ==
    {i \in DOMAIN Compiled : Compiled[i].ind = ind /\ Compiled[i].key \in keys}

\* the kinds of action inside the action blocks of the rule returned
ActionKinds ==
    {Compiled[i].key : i \in RuleLines(6, {"allow {}", "count {}", "block {}", "block {"})}

\* the (response code, body key) overrides of the rule returned, each with the
\* kind of action it stands in
Overrides ==
    {<<Compiled[i - 1].key, Compiled[i + 1].val, Compiled[i + 2].val>> :
        i \in RuleLines(8, {"custom_response {"})}

\* C26: a rule is emitted with one action block: allow for allow, count for count,
\* block for block, the block carrying the response code and body key of the
\* rule's custom-response descriptor when it declares one, and no other action
\* carrying them; any other declared action, `none` included, gives allow; a
\* rule_label block is there only for a rule that declares a label.
ActionBlockFollowsDeclaredAction ==
    (call.fn = "_build_single_rule" /\ returned.done) =>
        LET rule == call.args.rule
            descriptor == Get(rule, "custom_response", <<>>)
        IN  /\ returned.value.err = NoErr
            /\ Cardinality(RuleLines(4, {"action {"})) = 1
            /\ Has(rule, "action") =>
                  ActionKinds
                     = {CASE rule["action"] = "allow" -> "allow {}"
                          [] rule["action"] = "count" -> "count {}"
                          [] rule["action"] = "block" ->
                               IF descriptor # <<>> THEN "block {" ELSE "block {}"
                          [] OTHER -> "allow {}"}
            /\ Overrides
                  = IF Get(rule, "action", "") = "block" /\ descriptor # <<>>
                    THEN {<<"block {", IntToStr(Get(descriptor, "response_code", 403)),
                            descriptor["custom_response_body_key"]>>}
                    ELSE {}
            /\ RuleLines(4, {"rule_label {"}) # {} => Has(rule, "label")
            /\ Get(rule, "label", <<>>) # <<>> =>
                  Cardinality(RuleLines(4, {"rule_label {"})) = 1

\* a rule declared with the action none came out with an allow action
NoneActionAllowed ==
    /\ call.fn = "_build_single_rule" /\ returned.done
    /\ Get(call.args.rule, "action", "") = "none"
    /\ Has(call.args.rule, "custom_response")
    /\ ActionKinds = {"allow {}"}

(***************************************************************************)
(* C27                                                                     *)
(***************************************************************************)
\* the blocks of a written file
Written(file) == files[PathOf(builder, file)]

\* the references of the member entries, of the depends_on lists and of the
\* outputs, as written: var.X, aws_wafv2_rule_group.X[.arn], module.X[.out],
\* aws_fms_policy.X.attr
MemberRefs ==
    UNION {{SubSeq(b.preProcessRuleGroups[i].val, 2, Len(b.preProcessRuleGroups[i].val) - 1) :
               i \in {j \in DOMAIN b.preProcessRuleGroups :
                         b.preProcessRuleGroups[j].key = "ruleGroupArn               ="}} :
           b \in Range(BlocksOf("fms_policy.tf", "aws_fms_policy"))}
DependsRefs ==
    UNION {{b.depends_on[i].val : i \in {j \in DOMAIN b.depends_on : b.depends_on[j].ind = 4}} :
           b \in Range(BlocksOf("fms_policy.tf", "aws_fms_policy"))}
OutputRefs ==
    {out.value : out \in {o \in Range(Written("outputs.tf")) : Len(o.value) > 1}}

\* the X of a reference: what stands between its first and its second "."
NameIn(ref) ==
    LET dots == {k \in 3..Len(ref) : ref[k] = "."}
        stop == IF dots = {} THEN Len(ref) + 1 ELSE CHOOSE k \in dots : \A m \in dots : k <= m
    IN  SubSeq(ref, 3, stop - 1)

\* a declaration of the artifact set stands behind the reference
Declared(ref) ==
    CASE ref[1] = "var" ->
           \E b \in Range(BlocksOf("variables.tf", "variable")) : <<b.name>> = NameIn(ref)
      [] ref[1] = "aws_wafv2_rule_group" ->
           \E b \in Range(BlocksOf("waf_rule_groups.tf", "aws_wafv2_rule_group")) :
               b.name = NameIn(ref)
      [] ref[1] = "module" ->
           \E b \in Range(BlocksOf("modules.tf", "module")) : b.name = NameIn(ref)
      [] ref[1] = "aws_fms_policy" ->
           \E b \in Range(BlocksOf("fms_policy.tf", "aws_fms_policy")) : b.name = NameIn(ref)
      [] OTHER -> FALSE

\* the policy resource an output of the outputs file refers to
PolicyOutput(name) ==
    LET out == CHOOSE o \in Range(Written("outputs.tf")) : o.name = <<name>>
    IN  NameIn(out.value)

PathParts == Split(Strip(call.args, "/"), "/")

\* C28: parse_path on /items/123 returns the collection items and the item id 123,
\* and on every path of more than one segment that ends with an item id it returns
\* that id as item_id and the segments before it as the collection.
LastSegmentIsItemId ==
    (call.fn = "parse_path" /\ returned.done) =>
        /\ call.args = <<"/", "i", "t", "e", "m", "s", "/", "1", "2", "3">> =>
              returned.value = [collection |-> <<"i", "t", "e", "m", "s">>,
                                item_id |-> <<"1", "2", "3">>]
        /\ (Len(PathParts) > 1 /\ PathParts[Len(PathParts)] \in ItemIds) =>
              /\ returned.value.item_id = PathParts[Len(PathParts)]
              /\ returned.value.collection
                    = Join(SubSeq(PathParts, 1, Len(PathParts) - 1), "/")

(***************************************************************************)
(* C29                                                                     *)
(***************************************************************************)
\* the object a request addresses
KeyOfRequest(req) ==
    get_s3_key(PathOfRequest(req).collection, PathOfRequest(req).item_id)

\* two merging updates of one item stored at first, each of fields the other leaves
\* alone, both answered
BothUpdatesAnswered(r, q) ==
    /\ r # q
    /\ Route(inflight[r].event) = "merge" /\ Route(inflight[q].event) = "merge"
    /\ KeyOfRequest(inflight[r]) = KeyOfRequest(inflight[q])
    /\ KeyOfRequest(inflight[r]) \in DOMAIN StoredAtFirst
    /\ DOMAIN inflight[r].event.body.value \cap DOMAIN inflight[q].event.body.value = {}
    /\ inflight[r].pc = "done" /\ inflight[q].pc = "done"

\* C29: when two merging updates of the same stored item, each changing another
\* field, have both been answered, the item stored carries the change of each,
\* however their get_item and put_item steps were interleaved.
MergingUpdatesBothKept ==
    \A r, q \in DOMAIN inflight :
        BothUpdatesAnswered(r, q) =>
            \A field \in DOMAIN inflight[r].event.body.value :
                bucket[KeyOfRequest(inflight[r])][field] = inflight[r].event.body.value[field]

(***************************************************************************)
(* C30                                                                     *)
(***************************************************************************)
\* the first request was a DELETE with request=all, it is answered, and the second
\* request is one the client held back until then
DeletedAllFirst ==
    /\ Route(inflight[1].event) = "delete_all"
    /\ inflight[1].pc = "done"
    /\ inflight[2].after = {1}

\* C30: after a DELETE with request=all on a collection, the objects gone are the
\* items a GET on the collection listed before it, every other object is stored as
\* it was, nested collections included, and a GET on the collection then answers
\* with zero items.
DeleteAllDeletesWhatGetLists ==
    DeletedAllFirst =>
        LET collection == PathOfRequest(inflight[1]).collection
        IN  /\ inflight[2].pc = "received" =>
                  /\ DOMAIN StoredAtFirst \ DOMAIN bucket
                        = Range(ListedItemKeys(StoredAtFirst, collection))
                  /\ \A key \in DOMAIN bucket : bucket[key] = StoredAtFirst[key]
            /\ (/\ Route(inflight[2].event) = "list"
                /\ PathOfRequest(inflight[2]).collection = collection
                /\ inflight[2].pc = "done") =>
                  inflight[2].response.body.count = 0

====
